---- MODULE Spec2Model ----
(***************************************************************************)
(* Model of the Layla leasing agent: the dummy tour calendar               *)
(* (layla_calendar.py), the fact extractor, the decision node, the tool    *)
(* node and the turn driver (layla_agent.py).                              *)
(*                                                                         *)
(* Text is modelled as TLA+ strings, read character by character with      *)
(* SubSeq; dates and times are the strings the program stores.             *)
(***************************************************************************)
EXTENDS Integers, Sequences, FiniteSets, TLC

VARIABLES
    DUMMY_CALENDAR,   \* layla_calendar.DUMMY_CALENDAR: property_id -> calendar
    now,              \* the wall-clock day datetime.now() falls on: [y, m, d]
    ret,              \* the last call made on the store and what it returned
    ncalls,           \* number of store calls made so far (bounds the run)
    elapsed,          \* days the wall clock has advanced (bounds the run)
    reserved,         \* history: the (property_id, date, time) book_slot was called with
    cpc,              \* concurrent callers: position of each caller in book_slot
    cargs,            \* concurrent callers: the arguments of the caller's call
    cref,             \* concurrent callers: the dict the local `calendar` refers to
    cslot,            \* concurrent callers: index of the slot the caller's loop found
    cret,             \* concurrent callers: what book_slot returned to the caller
    orphans,          \* calendar dicts no longer in DUMMY_CALENDAR but still referred to
    conv,             \* the LaylaState the caller of run_layla holds between turns
    prior,            \* history: the state run_layla was last called with, as it was then
    st,               \* the state of the graph while a turn runs
    pc,               \* where the turn is: idle, extract, agent or tools
    turns,            \* number of turns started (bounds the run)
    rounds,           \* number of runs of the node "tools" in this turn (bounds the turn)
    outcome           \* how the last call of run_layla ended: returned or raised

storeVars == <<DUMMY_CALENDAR, now, ret, ncalls, elapsed, reserved>>
concVars == <<cpc, cargs, cref, cslot, cret, orphans>>
agentVars == <<conv, prior, st, pc, turns, rounds, outcome>>
vars == <<storeVars, concVars, agentVars>>

(***************************************************************************)
(* Bounds of the model.                                                    *)
(***************************************************************************)
MaxCalls == 3         \* store calls in one run of the sequential store
MaxDays == 1          \* days the wall clock may advance during a run
NumCallers == 2       \* threads that call book_slot concurrently
MaxTurns == 2         \* turns of one conversation
MaxRounds == 1        \* batches of tool calls the model asks for in one turn

(***************************************************************************)
(* Characters and small string helpers.                                    *)
(***************************************************************************)
Ch(s, i) == SubSeq(s, i, i)

\* F(v), for a value v that is computed once
Let(v, F(_)) == CHOOSE r \in {F(y) : y \in {v}} : TRUE

\* the least and the greatest number of a set
Min(set) == CHOOSE a \in set : \A b \in set : a <= b
Max(set) == CHOOSE a \in set : \A b \in set : b <= a

Digits == {"0", "1", "2", "3", "4", "5", "6", "7", "8", "9"}

\* f"{n:02d}"
Pad2(n) == IF n < 10 THEN "0" \o ToString(n) ELSE ToString(n)

\* str.replace(old, new) for a one-character old (the string is split in
\* halves to keep the evaluation shallow)
RECURSIVE Replace(_, _, _)
Replace(s, old, new) ==
    IF Len(s) = 0 THEN ""
    ELSE IF Len(s) = 1 THEN (IF s = old THEN new ELSE s)
    ELSE Replace(SubSeq(s, 1, Len(s) \div 2), old, new)
         \o Replace(SubSeq(s, Len(s) \div 2 + 1, Len(s)), old, new)

(***************************************************************************)
(* datetime: days, timedelta(days=n) and strftime("%Y-%m-%d").             *)
(***************************************************************************)
IsLeap(y) == (y % 4 = 0 /\ y % 100 # 0) \/ y % 400 = 0

DaysInMonth(y, m) ==
    IF m = 2 THEN (IF IsLeap(y) THEN 29 ELSE 28)
    ELSE IF m \in {4, 6, 9, 11} THEN 30 ELSE 31

NextDay(dt) ==
    IF dt.d < DaysInMonth(dt.y, dt.m) THEN [dt EXCEPT !.d = dt.d + 1]
    ELSE IF dt.m < 12 THEN [y |-> dt.y, m |-> dt.m + 1, d |-> 1]
    ELSE [y |-> dt.y + 1, m |-> 1, d |-> 1]

RECURSIVE AddDays(_, _)
AddDays(dt, n) == IF n = 0 THEN dt ELSE AddDays(NextDay(dt), n - 1)

Strftime(dt) == ToString(dt.y) \o "-" \o Pad2(dt.m) \o "-" \o Pad2(dt.d)

(***************************************************************************)
(* layla_calendar.py                                                       *)
(***************************************************************************)
WindowDays == 7
SlotHours == <<10, 14, 16>>

\* for hour in [10, 14, 16]: the slots of one day
RECURSIVE HourSlots(_, _)
HourSlots(date, hours) ==
    IF hours = <<>> THEN <<>>
    ELSE <<[date |-> date, time |-> Pad2(Head(hours)) \o ":00", available |-> TRUE]>>
         \o HourSlots(date, Tail(hours))

\* for day_offset in range(7): the slots of n consecutive days from dt on
RECURSIVE DaySlots(_, _)
DaySlots(dt, n) ==
    IF n = 0 THEN <<>>
    ELSE HourSlots(Strftime(dt), SlotHours) \o DaySlots(NextDay(dt), n - 1)

NewSlots(today) == DaySlots(today, WindowDays)

\* mutant: the calendar of a property is generated again at every reference
initialize_calendar_always(cal, property_id, today) ==
    [p \in (DOMAIN cal) \cup {property_id} |->
        IF p = property_id
        THEN [available_slots |-> NewSlots(today), booked_slots |-> <<>>]
        ELSE cal[p]]

initialize_calendar_for_property(cal, property_id, today) ==
    IF property_id \in DOMAIN cal THEN cal
    ELSE [p \in (DOMAIN cal) \cup {property_id} |->
             IF p = property_id
             THEN [available_slots |-> NewSlots(today), booked_slots |-> <<>>]
             ELSE cal[p]]

\* the index of the first slot of the list with this date and time, 0 if none
RECURSIVE FindSlot(_, _, _, _)
FindSlot(slots, date, time, i) ==
    IF i > Len(slots) THEN 0
    ELSE IF slots[i].date = date /\ slots[i].time = time THEN i
    ELSE FindSlot(slots, date, time, i + 1)

get_available_slots(cal, property_id, date) ==
    LET all == cal[property_id].available_slots IN
    SelectSeq(all, LAMBDA slot:
        IF date # "" THEN slot.date = date /\ slot.available ELSE slot.available)

\* mutant: a slot of the calendar is reported available whatever its flag
check_availability_offered(cal, property_id, date, time) ==
    FindSlot(cal[property_id].available_slots, date, time, 1) # 0

check_availability(cal, property_id, date, time) ==
    LET slots == cal[property_id].available_slots
        i == FindSlot(slots, date, time, 1) IN
    IF i = 0 THEN FALSE ELSE slots[i].available

confirmation_id(property_id, date, time) ==
    Replace(Replace(property_id \o "_" \o date \o "_" \o time, "-", "_"), ":", "_")

\* book_slot's success record
Booked(property_id, date, time, customer_name, customer_phone) ==
    [success |-> TRUE, property_id |-> property_id, date |-> date, time |-> time,
     customer_name |-> customer_name, customer_phone |-> customer_phone,
     confirmation_id |-> confirmation_id(property_id, date, time)]

NewBooking(date, time, customer_name, customer_phone, today) ==
    [date |-> date, time |-> time, customer_name |-> customer_name,
     customer_phone |-> customer_phone, booked_at |-> Strftime(today)]

\* mutant: the loop without the check of the slot's flag
book_slot_found_unchecked(cal, property_id, date, time, customer_name, customer_phone, today, i) ==
    IF i = 0 THEN
        [cal |-> cal, result |-> [success |-> FALSE, error |-> "Slot not found"]]
    ELSE
        [cal |-> [cal EXCEPT
                    ![property_id].available_slots[i].available = FALSE,
                    ![property_id].booked_slots =
                        Append(@, NewBooking(date, time, customer_name, customer_phone, today))],
         result |-> Booked(property_id, date, time, customer_name, customer_phone)]

\* mutant: the booking is recorded before the flag is looked at
book_slot_found_records_first(cal, property_id, date, time, customer_name, customer_phone, today, i) ==
    IF i = 0 THEN
        [cal |-> cal, result |-> [success |-> FALSE, error |-> "Slot not found"]]
    ELSE IF ~cal[property_id].available_slots[i].available THEN
        [cal |-> [cal EXCEPT ![property_id].booked_slots =
                        Append(@, NewBooking(date, time, customer_name, customer_phone, today))],
         result |-> [success |-> FALSE, error |-> "Slot is already booked"]]
    ELSE
        [cal |-> [cal EXCEPT
                    ![property_id].available_slots[i].available = FALSE,
                    ![property_id].booked_slots =
                        Append(@, NewBooking(date, time, customer_name, customer_phone, today))],
         result |-> Booked(property_id, date, time, customer_name, customer_phone)]

\* mutant: the whole day of the slot is marked unavailable
book_slot_found_whole_day(cal, property_id, date, time, customer_name, customer_phone, today, i) ==
    IF i = 0 THEN
        [cal |-> cal, result |-> [success |-> FALSE, error |-> "Slot not found"]]
    ELSE IF ~cal[property_id].available_slots[i].available THEN
        [cal |-> cal, result |-> [success |-> FALSE, error |-> "Slot is already booked"]]
    ELSE
        [cal |-> [cal EXCEPT
                    ![property_id].available_slots =
                        [k \in 1..Len(@) |->
                            IF @[k].date = date THEN [@[k] EXCEPT !.available = FALSE]
                            ELSE @[k]] \o <<>>,
                    ![property_id].booked_slots =
                        Append(@, NewBooking(date, time, customer_name, customer_phone, today))],
         result |-> Booked(property_id, date, time, customer_name, customer_phone)]

\* mutant: a call for a booked slot makes the slot available again
book_slot_found_releases(cal, property_id, date, time, customer_name, customer_phone, today, i) ==
    IF i = 0 THEN
        [cal |-> cal, result |-> [success |-> FALSE, error |-> "Slot not found"]]
    ELSE IF ~cal[property_id].available_slots[i].available THEN
        [cal |-> [cal EXCEPT ![property_id].available_slots[i].available = TRUE],
         result |-> [success |-> FALSE, error |-> "Slot is already booked"]]
    ELSE
        [cal |-> [cal EXCEPT
                    ![property_id].available_slots[i].available = FALSE,
                    ![property_id].booked_slots =
                        Append(@, NewBooking(date, time, customer_name, customer_phone, today))],
         result |-> Booked(property_id, date, time, customer_name, customer_phone)]

\* mutant: the slot is marked, the booking is not recorded
book_slot_found_marks_only(cal, property_id, date, time, customer_name, customer_phone, today, i) ==
    IF i = 0 THEN
        [cal |-> cal, result |-> [success |-> FALSE, error |-> "Slot not found"]]
    ELSE IF ~cal[property_id].available_slots[i].available THEN
        [cal |-> cal, result |-> [success |-> FALSE, error |-> "Slot is already booked"]]
    ELSE
        [cal |-> [cal EXCEPT ![property_id].available_slots[i].available = FALSE],
         result |-> Booked(property_id, date, time, customer_name, customer_phone)]

\* the loop and the returns of book_slot, on a store in which property_id has
\* a calendar: the new store and the dict returned
book_slot_found(cal, property_id, date, time, customer_name, customer_phone, today, i) ==
    IF i = 0 THEN
        [cal |-> cal, result |-> [success |-> FALSE, error |-> "Slot not found"]]
    ELSE IF ~cal[property_id].available_slots[i].available THEN
        [cal |-> cal, result |-> [success |-> FALSE, error |-> "Slot is already booked"]]
    ELSE
        [cal |-> [cal EXCEPT
                    ![property_id].available_slots[i].available = FALSE,
                    ![property_id].booked_slots =
                        Append(@, NewBooking(date, time, customer_name, customer_phone, today))],
         result |-> Booked(property_id, date, time, customer_name, customer_phone)]

book_slot_in(cal, property_id, date, time, customer_name, customer_phone, today) ==
    book_slot_found(cal, property_id, date, time, customer_name, customer_phone, today,
                    FindSlot(cal[property_id].available_slots, date, time, 1))

book_slot(cal0, property_id, date, time, customer_name, customer_phone, today) ==
    book_slot_in(initialize_calendar_for_property(cal0, property_id, today),
                 property_id, date, time, customer_name, customer_phone, today)

get_booked_slots(cal, property_id) ==
    IF property_id \notin DOMAIN cal THEN <<>> ELSE cal[property_id].booked_slots

\* the slots of a calendar that have this date and time
Offered(cal, property_id, date, time) ==
    FindSlot(cal[property_id].available_slots, date, time, 1) # 0

\* the number of entries of a list of slots or bookings with this date and time
RECURSIVE CountAt(_, _, _)
CountAt(list, date, time) ==
    IF list = <<>> THEN 0
    ELSE (IF Head(list).date = date /\ Head(list).time = time THEN 1 ELSE 0)
         + CountAt(Tail(list), date, time)

(***************************************************************************)
(* re: regular expressions over strings, matched the way Python's          *)
(* backtracking matcher does (leftmost match, alternatives in order,       *)
(* greedy repetition), with the flag re.IGNORECASE. A pattern is a tree:   *)
(*   Lit(s)         the characters of s (s in lower case)                  *)
(*   Set(S)         one character of the set S                             *)
(*   Cat(xs)        the patterns of the sequence xs, one after the other   *)
(*   Alt(xs)        a|b|...                                                *)
(*   Rep(x, m, n)   x{m,n}, n = -1 for no upper limit                      *)
(*   Grp(g, x)      capturing group number g                               *)
(*   Words          [A-Z][a-z]+(?:\s+[A-Z][a-z]+)*                         *)
(*   End            $                                                      *)
(***************************************************************************)
LowerCase == <<"a", "b", "c", "d", "e", "f", "g", "h", "i", "j", "k", "l", "m",
               "n", "o", "p", "q", "r", "s", "t", "u", "v", "w", "x", "y", "z">>
UpperCase == <<"A", "B", "C", "D", "E", "F", "G", "H", "I", "J", "K", "L", "M",
               "N", "O", "P", "Q", "R", "S", "T", "U", "V", "W", "X", "Y", "Z">>
Letters == {LowerCase[i] : i \in 1..26} \cup {UpperCase[i] : i \in 1..26}
Space == {" ", "\t", "\n", "\r", "\f"}

\* str.lower() of one character
LowerCh(c) ==
    IF \E i \in 1..26 : UpperCase[i] = c
    THEN LowerCase[CHOOSE i \in 1..26 : UpperCase[i] = c]
    ELSE c

\* str.upper() of one character
UpperCh(c) ==
    IF \E i \in 1..26 : LowerCase[i] = c
    THEN UpperCase[CHOOSE i \in 1..26 : LowerCase[i] = c]
    ELSE c

\* str.lower() (the string is split in halves to keep the evaluation shallow)
RECURSIVE Lower(_)
Lower(s) ==
    IF Len(s) = 0 THEN ""
    ELSE IF Len(s) = 1 THEN LowerCh(s)
    ELSE Lower(SubSeq(s, 1, Len(s) \div 2)) \o Lower(SubSeq(s, Len(s) \div 2 + 1, Len(s)))

\* int(s) of a string of digits
DigitVal(c) == CHOOSE n \in 0..9 : ToString(n) = c

RECURSIVE IntOf(_, _)
IntOf(s, acc) == IF s = "" THEN acc ELSE IntOf(Tail(s), 10 * acc + DigitVal(Head(s)))

Int_(s) == IntOf(s, 0)

\* c: the two cases of the first character of s
Lit(s) == [k |-> "lit", s |-> s, c |-> {Ch(s, 1), UpperCh(Ch(s, 1))}]
Set(S) == [k |-> "set", s |-> S]
Cat(xs) == [k |-> "cat", xs |-> xs]
Alt(xs) == [k |-> "alt", xs |-> xs]
Rep(x, m, n) == [k |-> "rep", x |-> x, min |-> m, max |-> n]
Grp(g, x) == [k |-> "grp", g |-> g, x |-> x]
End == [k |-> "end"]

Opt(x) == Rep(x, 0, 1)
Star(x) == Rep(x, 0, -1)
Plus(x) == Rep(x, 1, -1)

NoMatch == [ok |-> FALSE]
\* a group that took no part in the match
NoGroup == [from |-> 0, to |-> 0]
NoGroups == <<NoGroup, NoGroup, NoGroup>>

\* the number of characters of t from position i on that are in the set S
RunLength(t, i, S) ==
    IF i > Len(t) \/ Ch(t, i) \notin S THEN 0
    ELSE IF \A j \in i..Len(t) : Ch(t, j) \in S THEN Len(t) - i + 1
    ELSE (CHOOSE j \in i..Len(t) :
             Ch(t, j) \notin S /\ \A h \in i..(j - 1) : Ch(t, h) \in S) - i

IsLetter(t, j) == j >= 1 /\ j <= Len(t) /\ Ch(t, j) \in Letters

\* [A-Z][a-z]+(?:\s+[A-Z][a-z]+)* from position i (under re.IGNORECASE both
\* classes are all letters): the positions after the last character of each
\* way to match it. Every word but the last is a whole run of letters, every
\* word has two letters or more, so the match stops before a one-letter word.
WordsNexts(t, i) ==
    IF ~IsLetter(t, i) \/ ~IsLetter(t, i + 1) THEN {}
    ELSE Let(i + RunLength(t, i, Letters \cup Space) - 1, LAMBDA last :
         Let(Min({j \in (i + 1)..last :
                     IsLetter(t, j) /\ ~IsLetter(t, j - 1) /\ ~IsLetter(t, j + 1)}
                 \cup {last + 1}), LAMBDA stop :
         {e + 1 : e \in {e \in (i + 1)..(stop - 1) : IsLetter(t, e) /\ IsLetter(t, e - 1)}}))

\* Match(todo, t, i, caps): the first way, in the matcher's order, to match
\* the patterns of the sequence todo one after the other from position i of t
RECURSIVE Match(_, _, _, _)
RECURSIVE MatchAlt(_, _, _, _, _)
RECURSIVE MatchLongest(_, _, _, _)
Match(todo, t, i, caps) ==
    IF todo = <<>> THEN [ok |-> TRUE, to |-> i, caps |-> caps]
    ELSE LET x == Head(todo)
             rest == Tail(todo) IN
         CASE x.k = "lit" ->
                IF i + Len(x.s) - 1 <= Len(t) /\ Ch(t, i) \in x.c
                   /\ Lower(SubSeq(t, i, i + Len(x.s) - 1)) = x.s
                THEN Match(rest, t, i + Len(x.s), caps) ELSE NoMatch
           [] x.k = "set" ->
                IF i <= Len(t) /\ Ch(t, i) \in x.s
                THEN Match(rest, t, i + 1, caps) ELSE NoMatch
           [] x.k = "cat" -> Match(x.xs \o rest, t, i, caps)
           [] x.k = "alt" -> MatchAlt(x.xs, rest, t, i, caps)
           [] x.k = "rep" /\ x.x.k = "set" ->
                \* a repeated character class: the longest run first, then shorter ones
                Let(RunLength(t, i, x.x.s), LAMBDA run :
                    MatchLongest(rest, t, caps,
                        {i + n : n \in x.min..(IF x.max < 0 \/ run < x.max
                                               THEN run ELSE x.max)}))
           [] x.k = "rep" ->
                Let(IF x.max = 0 THEN NoMatch
                    ELSE Match(<<x.x, Rep(x.x, x.min - 1,
                                          IF x.max < 0 THEN x.max ELSE x.max - 1)>>
                               \o rest, t, i, caps),
                    LAMBDA more :
                        IF more.ok THEN more
                        ELSE IF x.min <= 0 THEN Match(rest, t, i, caps) ELSE NoMatch)
           [] x.k = "words" -> MatchLongest(rest, t, caps, WordsNexts(t, i))
           [] x.k = "grp" ->
                Match(<<x.x, [k |-> "close", g |-> x.g, from |-> i]>> \o rest, t, i, caps)
           [] x.k = "close" ->
                Match(rest, t, i, [caps EXCEPT ![x.g] = [from |-> x.from, to |-> i - 1]])
           [] x.k = "end" ->
                IF i = Len(t) + 1 \/ (i = Len(t) /\ Ch(t, i) = "\n")
                THEN Match(rest, t, i, caps) ELSE NoMatch

MatchAlt(xs, rest, t, i, caps) ==
    IF xs = <<>> THEN NoMatch
    ELSE Let(Match(<<Head(xs)>> \o rest, t, i, caps), LAMBDA first :
             IF first.ok THEN first ELSE MatchAlt(Tail(xs), rest, t, i, caps))

\* the match that starts at the least (greatest = FALSE) or the greatest of
\* the positions of tries = {<<position, match>>} whose match is one
Best(tries, greatest) ==
    Let({r \in tries : r[2].ok}, LAMBDA good :
        IF good = {} THEN <<0, NoMatch>>
        ELSE Let(IF greatest THEN Max({r[1] : r \in good}) ELSE Min({r[1] : r \in good}),
                 LAMBDA j : CHOOSE r \in good : r[1] = j))

\* the match of the rest of the pattern from the greatest of the positions
\* nexts from which it has one (a greedy repetition gives back one by one)
MatchLongest(rest, t, caps, nexts) ==
    Best({<<j, Match(rest, t, j, caps)>> : j \in nexts}, TRUE)[2]

\* the characters a match of the patterns of the sequence xs can start with;
\* any is TRUE if a match can be empty or start with whatever character,
\* words is TRUE if every match starts with Words
RECURSIVE First(_)
RECURSIVE FirstAlt(_, _)
First(xs) ==
    IF xs = <<>> THEN [any |-> TRUE, cs |-> {}, words |-> FALSE]
    ELSE LET x == Head(xs)
             rest == Tail(xs) IN
         CASE x.k = "lit" -> [any |-> FALSE, cs |-> x.c, words |-> FALSE]
           [] x.k = "set" -> [any |-> FALSE, cs |-> x.s, words |-> FALSE]
           [] x.k = "cat" -> First(x.xs \o rest)
           [] x.k = "alt" -> FirstAlt(x.xs, rest)
           [] x.k = "rep" ->
                IF x.min <= 0 THEN FirstAlt(<<x.x, Cat(<<>>)>>, rest)
                ELSE First(<<x.x>> \o rest)
           [] x.k = "words" -> [any |-> FALSE, cs |-> Letters, words |-> TRUE]
           [] x.k = "grp" -> First(<<x.x>> \o rest)
           [] x.k = "end" -> [any |-> TRUE, cs |-> {}, words |-> FALSE]

FirstOr(a, b) ==
    [any |-> a.any \/ b.any, cs |-> a.cs \cup b.cs, words |-> a.words /\ b.words]

FirstAlt(xs, rest) ==
    IF xs = <<>> THEN [any |-> FALSE, cs |-> {}, words |-> TRUE]
    ELSE FirstOr(First(<<Head(xs)>> \o rest), FirstAlt(Tail(xs), rest))

\* the positions of t at which a match with these first characters can start;
\* a pattern that starts with Words is not tried inside a run of letters,
\* where it matches only if it also matches one position to the left
Starts(first, t) ==
    IF first.any THEN 1..(Len(t) + 1)
    ELSE {i \in 1..Len(t) : Ch(t, i) \in first.cs /\ (first.words => ~IsLetter(t, i - 1))}

\* the match object of a match of the whole pattern that starts at position from
Found(from, m) ==
    IF m.ok THEN [ok |-> TRUE, from |-> from, to |-> m.to - 1, caps |-> m.caps]
    ELSE NoMatch

\* re.search(pattern, t): the match at the leftmost position that has one
Search(x, t) ==
    Let(Best({<<i, Match(<<x>>, t, i, NoGroups)>> : i \in Starts(First(<<x>>), t)}, FALSE),
        LAMBDA r : Found(r[1], r[2]))

\* match.group(g), "" for a group that took no part (None in Python)
Group(m, t, g) ==
    IF g = 0 THEN SubSeq(t, m.from, m.to)
    ELSE IF m.caps[g] = NoGroup THEN ""
    ELSE SubSeq(t, m.caps[g].from, m.caps[g].to)

\* str.strip()
Strip(s) ==
    Let({i \in 1..Len(s) : Ch(s, i) \notin Space}, LAMBDA kept :
        IF kept = {} THEN "" ELSE SubSeq(s, Min(kept), Max(kept)))

\* sub in s
Contains(s, sub) ==
    \E i \in 1..(Len(s) - Len(sub) + 1) : SubSeq(s, i, i + Len(sub) - 1) = sub

\* str.isdigit()
IsDigit(s) == s # "" /\ \A i \in 1..Len(s) : Ch(s, i) \in Digits

\* s.startswith(prefix)
StartsWith(s, prefix) == Len(s) >= Len(prefix) /\ SubSeq(s, 1, Len(prefix)) = prefix

(***************************************************************************)
(* The patterns of extract_information_node.                               *)
(***************************************************************************)
D == Set(Digits)
S == Set(Space)
\* [A-Z][a-z]+(?:\s+[A-Z][a-z]+)*
Words == [k |-> "words"]

comma_patterns ==
    <<Cat(<<Grp(1, Words), Star(S), Lit(","), Star(S), Grp(2, Rep(D, 8, 12)),
            Alt(<<S, End>>)>>),
      Cat(<<Grp(1, Words), Star(S), Lit(","), Star(S), Grp(2, Rep(D, 8, 12)), End>>)>>

\* (?:\s+and|\s+phone|\s+,\s*phone|$)
NameEnd == Alt(<<Cat(<<Plus(S), Lit("and")>>), Cat(<<Plus(S), Lit("phone")>>),
                 Cat(<<Plus(S), Lit(","), Star(S), Lit("phone")>>), End>>)

name_patterns ==
    <<Cat(<<Lit("my"), Plus(S), Lit("name"), Plus(S), Lit("is"), Plus(S), Grp(1, Words), NameEnd>>),
      Cat(<<Lit("name"), Plus(S), Lit("is"), Plus(S), Grp(1, Words), NameEnd>>),
      Cat(<<Lit("i"), Opt(Lit("'")), Lit("m"), Plus(S), Grp(1, Words), NameEnd>>),
      Cat(<<Lit("i"), Plus(S), Lit("am"), Plus(S), Grp(1, Words), NameEnd>>),
      Cat(<<Lit("call"), Plus(S), Lit("me"), Plus(S), Grp(1, Words), NameEnd>>)>>

phone_patterns ==
    <<Cat(<<Alt(<<Lit("phone"), Lit("phone number"), Lit("mobile"), Lit("number")>>),
            Opt(Alt(<<Cat(<<Plus(S), Lit("is")>>),
                      Cat(<<Plus(S), Lit("number"), Plus(S), Lit("is")>>)>>)),
            Star(S), Opt(Lit(":")), Star(S), Grp(1, Rep(D, 8, 12)), Alt(<<S, End>>)>>)>>

MonthNames == <<"november", "december", "january", "february", "march", "april",
                "may", "june", "july", "august", "september", "october">>

MonthWords == <<"nov", "november", "dec", "december", "jan", "january", "feb",
                "february", "mar", "march", "apr", "april", "may", "jun", "june",
                "jul", "july", "aug", "august", "sep", "september", "oct", "october">>

date_patterns ==
    <<Cat(<<Alt(<<Lit("tomorrow"), Lit("today")>>),
            Alt(<<Cat(<<Plus(S), Lit("works")>>), Cat(<<Plus(S), Lit("at")>>),
                  Cat(<<Plus(S), D>>), End>>)>>),
      Cat(<<Alt([i \in 1..Len(MonthWords) |-> Lit(MonthWords[i])] \o <<>>), Plus(S),
            Grp(1, Rep(D, 1, 2)),
            Opt(Alt(<<Lit("st"), Lit("nd"), Lit("rd"), Lit("th")>>))>>),
      Grp(1, Cat(<<Rep(D, 4, 4), Lit("-"), Rep(D, 2, 2), Lit("-"), Rep(D, 2, 2)>>))>>

AmPm == Alt(<<Lit("am"), Lit("pm")>>)

\* the two searches that let a known time be extracted again
time_trigger_ampm == Cat(<<Rep(D, 1, 2), Star(S), Grp(1, AmPm)>>)
time_trigger_colon == Cat(<<Rep(D, 1, 2), Lit(":"), Rep(D, 2, 2)>>)

time_patterns ==
    <<Cat(<<Grp(1, Rep(D, 1, 2)), Opt(Lit(":")), Opt(Grp(2, Rep(D, 2, 2))), Star(S),
            Grp(3, AmPm),
            Alt(<<Cat(<<Plus(S), Lit("tomorrow")>>), Cat(<<Plus(S), Lit("today")>>),
                  Cat(<<Plus(S), Lit("works")>>), End>>)>>),
      Cat(<<Grp(1, Rep(D, 1, 2)), Opt(Lit(":")), Opt(Grp(2, Rep(D, 2, 2))), Star(S),
            Grp(3, AmPm)>>),
      Cat(<<Grp(1, Rep(D, 1, 2)), Lit(":"), Grp(2, Rep(D, 2, 2))>>),
      Cat(<<Grp(1, Rep(D, 1, 2)), Star(S), Grp(2, AmPm)>>)>>

(***************************************************************************)
(* LaylaState, its messages, and the way LangGraph applies the dict a node *)
(* returns: a key of the dict replaces the state's value, except messages, *)
(* whose reducer add_messages appends. A dict key that is missing or None  *)
(* is the empty string (both are false for the program's tests).           *)
(* A message is an object of a class of BaseMessage (base is TRUE) or, in  *)
(* a state that came in as JSON, a plain dict of its fields (base FALSE).  *)
(***************************************************************************)
HumanMessage(content) ==
    [type |-> "human", content |-> content, tool_calls |-> <<>>, tool_call_id |-> "",
     base |-> TRUE]
AIMessage(content, tool_calls) ==
    [type |-> "ai", content |-> content, tool_calls |-> tool_calls, tool_call_id |-> "",
     base |-> TRUE]
ToolMessage(content, tool_call_id) ==
    [type |-> "tool", content |-> content, tool_calls |-> <<>>, tool_call_id |-> tool_call_id,
     base |-> TRUE]

add_messages(left, right) == left \o right

Merge(state, update) ==
    [key \in DOMAIN state |->
        IF key \notin DOMAIN update THEN state[key]
        ELSE IF key = "messages" THEN add_messages(state[key], update[key])
        ELSE update[key]]

(***************************************************************************)
(* extract_information_node                                                *)
(***************************************************************************)
\* the words that are no name
Fillers == {"yes", "no", "yep", "nope"}

\* for pattern in patterns: the first pattern (from the k-th on) that
\* re.search finds in t, and its match; k = 0 if none
RECURSIVE FirstMatch(_, _, _)
FirstMatch(patterns, t, k) ==
    IF k > Len(patterns) THEN [k |-> 0, m |-> NoMatch]
    ELSE Let(Search(patterns[k], t), LAMBDA m :
             IF m.ok THEN [k |-> k, m |-> m] ELSE FirstMatch(patterns, t, k + 1))

\* mutant: the name of a "name, phone" text replaces a known name
comma_name_overwrites(current_lead_info, name_clean) == name_clean

\* lines 480-481: the name a "name, phone" text leaves in lead_info
comma_name(current_lead_info, name_clean) ==
    IF current_lead_info.name = "" \/ current_lead_info.name \in Fillers
    THEN name_clean ELSE current_lead_info.name

\* mutant: the digits of the comma format are added to the phone that is known
comma_phone_appends(current_lead_info, phone) == current_lead_info.phone \o phone

\* mutant: the digits of the comma format are taken only when no phone is known
comma_phone_when_unset(current_lead_info, phone) ==
    IF current_lead_info.phone = "" THEN phone ELSE current_lead_info.phone

\* lines 482-483: the phone a "name, phone" text leaves in lead_info
comma_phone(current_lead_info, phone) ==
    IF current_lead_info.phone = "" \/ Len(current_lead_info.phone) < 8
    THEN phone ELSE current_lead_info.phone

\* lines 471-484: "name, phone" in the original text
RECURSIVE extract_comma(_, _, _)
extract_comma(current_lead_info, user_text_original, k) ==
    IF k > Len(comma_patterns) THEN current_lead_info
    ELSE Let(Search(comma_patterns[k], user_text_original), LAMBDA comma_match :
         IF ~comma_match.ok THEN extract_comma(current_lead_info, user_text_original, k + 1)
         ELSE Let(Strip(Group(comma_match, user_text_original, 1)), LAMBDA name_clean :
              IF Len(name_clean) >= 2 /\ ~IsDigit(name_clean)
                 /\ Lower(name_clean) \notin Fillers
              THEN [current_lead_info EXCEPT
                       !.name = comma_name(current_lead_info, name_clean),
                       !.phone = comma_phone(current_lead_info,
                                    Strip(Group(comma_match, user_text_original, 2)))]
              ELSE extract_comma(current_lead_info, user_text_original, k + 1)))

\* mutant: the introduction phrases are tried whatever name is known
extract_name_unconditional(lead_info, current_lead_info, user_text_original) ==
    Let(FirstMatch(name_patterns, user_text_original, 1), LAMBDA hit :
        IF hit.k = 0 THEN lead_info
        ELSE [lead_info EXCEPT !.name = Strip(Group(hit.m, user_text_original, 1))])

\* lines 489-512: an introduction phrase in the original text
extract_name(lead_info, current_lead_info, user_text_original) ==
    IF lead_info.name = "" /\ current_lead_info.name = ""
    THEN Let(FirstMatch(name_patterns, user_text_original, 1), LAMBDA hit :
             IF hit.k = 0 THEN lead_info
             ELSE [lead_info EXCEPT !.name = Strip(Group(hit.m, user_text_original, 1))])
    ELSE lead_info

\* lines 517-531: an explicit phone phrase in the lower-cased text
extract_phone(lead_info, current_lead_info, user_text) ==
    IF lead_info.phone = "" /\ current_lead_info.phone = ""
    THEN Let(FirstMatch(phone_patterns, user_text, 1), LAMBDA hit :
             IF hit.k = 0 THEN lead_info
             ELSE Let(Strip(Group(hit.m, user_text, 1)), LAMBDA phone :
                      IF Len(phone) >= 8 /\ ~StartsWith(phone, "rocky_")
                      THEN [lead_info EXCEPT !.phone = phone]
                      ELSE lead_info))
    ELSE lead_info

\* month_map
month_map == <<"jan", "feb", "mar", "apr", "may", "jun",
               "jul", "aug", "sep", "oct", "nov", "dec">>

\* lines 559-569: "Nov 6th" read as a day of the current year
month_day(matched, day_digits, today) ==
    LET month_name == SubSeq(matched, 1, 3)
        day == Int_(day_digits)
        month == IF \E i \in 1..12 : month_map[i] = month_name
                 THEN CHOOSE i \in 1..12 : month_map[i] = month_name
                 ELSE today.m IN
    ToString(today.y) \o "-" \o Pad2(month) \o "-" \o Pad2(day)

\* mutant: the date patterns are tried whatever date is known
extract_date_always(tour_details, current_tour_details, user_text, today) ==
    Let(FirstMatch(date_patterns, user_text, 1), LAMBDA hit :
        IF hit.k = 0 THEN tour_details
        ELSE IF hit.k = 1
        THEN [tour_details EXCEPT !.date =
                 IF Contains(Lower(Group(hit.m, user_text, 0)), "tomorrow")
                 THEN Strftime(AddDays(today, 1)) ELSE Strftime(today)]
        ELSE IF Match(<<date_patterns[3]>>, Group(hit.m, user_text, 1), 1, NoGroups).ok
        THEN [tour_details EXCEPT !.date = Group(hit.m, user_text, 1)]
        ELSE [tour_details EXCEPT !.date =
                 month_day(Lower(Group(hit.m, user_text, 0)),
                           Group(hit.m, user_text, 1), today)])

\* lines 536-574: a date in the lower-cased text
extract_date(tour_details, current_tour_details, user_text, today) ==
    IF current_tour_details.date = ""
       \/ \E i \in 1..Len(MonthNames) : Contains(user_text, MonthNames[i])
    THEN Let(FirstMatch(date_patterns, user_text, 1), LAMBDA hit :
         IF hit.k = 0 THEN tour_details
         ELSE IF hit.k = 1
         THEN [tour_details EXCEPT !.date =
                  IF Contains(Lower(Group(hit.m, user_text, 0)), "tomorrow")
                  THEN Strftime(AddDays(today, 1)) ELSE Strftime(today)]
         ELSE IF Match(<<date_patterns[3]>>, Group(hit.m, user_text, 1), 1, NoGroups).ok
         THEN [tour_details EXCEPT !.date = Group(hit.m, user_text, 1)]
         ELSE [tour_details EXCEPT !.date =
                  month_day(Lower(Group(hit.m, user_text, 0)),
                            Group(hit.m, user_text, 1), today)])
    ELSE tour_details

\* the groups (hour, minute, am/pm) of each of time_patterns, 0 for None
time_groups == <<<<1, 2, 3>>, <<1, 2, 3>>, <<1, 2, 0>>, <<1, 0, 2>>>>

\* mutant: the hour is taken as it is written, am or pm
time_of_as_written(hour_digits, minute_digits, am_pm) ==
    Pad2(Int_(hour_digits)) \o ":"
    \o Pad2(IF minute_digits # "" THEN Int_(minute_digits) ELSE 0)

\* lines 589-599: the 24-hour "HH:MM" of a match
time_of(hour_digits, minute_digits, am_pm) ==
    LET hour == Int_(hour_digits)
        minute == IF minute_digits # "" THEN Int_(minute_digits) ELSE 0
        hour24 == IF am_pm # "" /\ Lower(am_pm) = "pm" /\ hour # 12 THEN hour + 12
                  ELSE IF am_pm # "" /\ Lower(am_pm) = "am" /\ hour = 12 THEN 0
                  ELSE hour IN
    Pad2(hour24) \o ":" \o Pad2(minute)

\* lines 578-601: a time in the lower-cased text
extract_time(tour_details, current_tour_details, user_text) ==
    IF current_tour_details.time = ""
       \/ Search(time_trigger_ampm, user_text).ok
       \/ Search(time_trigger_colon, user_text).ok
    THEN Let(FirstMatch(time_patterns, user_text, 1), LAMBDA hit :
         IF hit.k = 0 THEN tour_details
         ELSE LET groups == time_groups[hit.k] IN
              [tour_details EXCEPT !.time =
                  time_of(Group(hit.m, user_text, groups[1]),
                          IF groups[2] # 0 THEN Group(hit.m, user_text, groups[2]) ELSE "",
                          IF groups[3] # 0 THEN Group(hit.m, user_text, groups[3]) ELSE "")])
    ELSE tour_details

\* mutant: the selected property replaces the tour's property
extract_property_id_overwrites(tour_details, selected_property) ==
    IF selected_property.property_id # ""
    THEN [tour_details EXCEPT !.property_id = selected_property.property_id]
    ELSE tour_details

\* lines 604-606: the selected property becomes the tour's property
extract_property_id(tour_details, selected_property) ==
    IF selected_property.property_id # "" /\ tour_details.property_id = ""
    THEN [tour_details EXCEPT !.property_id = selected_property.property_id]
    ELSE tour_details

\* lines 456-612: what the text of the last message adds to copies of the facts
extract_from(state, current_lead_info, current_tour_details, today) ==
    Let(state.messages[Len(state.messages)].content, LAMBDA user_text_original :
    Let(Lower(user_text_original), LAMBDA user_text :
        [lead_info |->
            extract_phone(
                extract_name(extract_comma(current_lead_info, user_text_original, 1),
                             current_lead_info, user_text_original),
                current_lead_info, user_text),
         tour_details |->
            extract_property_id(
                extract_time(
                    extract_date(current_tour_details, current_tour_details,
                                 user_text, today),
                    current_tour_details, user_text),
                state.selected_property)]))

\* mutant: the extractor starts from empty dicts instead of copies of the facts
extract_information_node_from_empty(state, today) ==
    IF state.messages = <<>>
    THEN [lead_info |-> state.lead_info, tour_details |-> state.tour_details]
    ELSE extract_from(state, [name |-> "", phone |-> "", email |-> ""],
                      [property_id |-> "", date |-> "", time |-> ""], today)

\* the dict extract_information_node returns
extract_information_node(state, today) ==
    IF state.messages = <<>>
    THEN [lead_info |-> state.lead_info, tour_details |-> state.tour_details]
    ELSE extract_from(state, state.lead_info, state.tour_details, today)

\* mutant: the node writes to the dicts of its input state, not to copies
extract_information_node_input_in_place(state, today) ==
    [state EXCEPT !.lead_info = extract_information_node(state, today).lead_info,
                  !.tour_details = extract_information_node(state, today).tour_details]

\* lines 446-450 and 608-612: the objects of the input state after the node
\* has returned. Every assignment of the node goes to state_updates, whose two
\* dicts are .copy() of the input's and hold strings only
extract_information_node_input(state, today) == state

(***************************************************************************)
(* The sequential store: any sequence of calls of the four functions of    *)
(* layla_calendar.py, by any callers, one call at a time.                  *)
(***************************************************************************)
Today0 == [y |-> 2025, m |-> 11, d |-> 28]

\* the property ids callers pass: any string is taken; these two differ only
\* in a character that line 142 replaces
PropertyIds == {"rocky_001", "rocky-001"}
\* the (date, time) pairs callers ask for: two offers of the window that starts
\* on Today0, the first day after that window, and an hour that is never offered
StoreSlots == {<<Strftime(Today0), "10:00">>,
               <<Strftime(AddDays(Today0, 1)), "14:00">>,
               <<Strftime(AddDays(Today0, WindowDays)), "10:00">>,
               <<Strftime(Today0), "11:00">>}
StoreDates == {Strftime(Today0), ""}
Customers == {[name |-> "laksh", phone |-> "3122037041"],
              [name |-> "Sarah Ahmed", phone |-> "0501234567"]}

NoCall == [op |-> "none"]

\* no LaylaState: the caller of run_layla passes None, no graph is running
NoState == [none |-> TRUE]

\* the store is used without a conversation
NoConversation ==
    /\ conv = NoState /\ prior = NoState /\ st = NoState /\ pc = "idle"
    /\ turns = 0 /\ rounds = 0 /\ outcome = "none"

InitStore ==
    /\ DUMMY_CALENDAR = <<>>
    /\ now = Today0
    /\ ret = NoCall
    /\ ncalls = 0
    /\ elapsed = 0
    /\ reserved = {}
    /\ cpc = <<>> /\ cargs = <<>> /\ cref = <<>> /\ cslot = <<>> /\ cret = <<>>
    /\ orphans = <<>>
    /\ NoConversation

CallGetAvailableSlots ==
    /\ ncalls < MaxCalls
    /\ \E property_id \in PropertyIds, date \in StoreDates :
        \E cal \in {initialize_calendar_for_property(DUMMY_CALENDAR, property_id, now)} :
        /\ DUMMY_CALENDAR' = cal
        /\ ret' = [op |-> "get_available_slots", property_id |-> property_id,
                   date |-> date,
                   result |-> get_available_slots(cal, property_id, date)]
        /\ ncalls' = ncalls + 1
        /\ UNCHANGED <<now, elapsed, reserved, concVars, agentVars>>

CallCheckAvailability ==
    /\ ncalls < MaxCalls
    /\ \E property_id \in PropertyIds, s \in StoreSlots :
        \E cal \in {initialize_calendar_for_property(DUMMY_CALENDAR, property_id, now)} :
        /\ DUMMY_CALENDAR' = cal
        /\ ret' = [op |-> "check_availability", property_id |-> property_id,
                   date |-> s[1], time |-> s[2],
                   result |-> check_availability(cal, property_id, s[1], s[2])]
        /\ ncalls' = ncalls + 1
        /\ UNCHANGED <<now, elapsed, reserved, concVars, agentVars>>

CallBookSlot ==
    /\ ncalls < MaxCalls
    /\ \E property_id \in PropertyIds, s \in StoreSlots, c \in Customers :
        \E r \in {book_slot(DUMMY_CALENDAR, property_id, s[1], s[2], c.name, c.phone, now)} :
        /\ DUMMY_CALENDAR' = r.cal
        /\ ret' = [op |-> "book_slot", property_id |-> property_id,
                   date |-> s[1], time |-> s[2],
                   customer_name |-> c.name, customer_phone |-> c.phone,
                   result |-> r.result]
        /\ ncalls' = ncalls + 1
        /\ reserved' = reserved \cup {<<property_id, s[1], s[2]>>}
        /\ UNCHANGED <<now, elapsed, concVars, agentVars>>

CallGetBookedSlots ==
    /\ ncalls < MaxCalls
    /\ \E property_id \in PropertyIds :
        /\ ret' = [op |-> "get_booked_slots", property_id |-> property_id,
                   result |-> get_booked_slots(DUMMY_CALENDAR, property_id)]
        /\ ncalls' = ncalls + 1
        /\ UNCHANGED <<DUMMY_CALENDAR, now, elapsed, reserved, concVars, agentVars>>

\* midnight passes between two calls
AdvanceClock ==
    /\ elapsed < MaxDays
    /\ now' = NextDay(now)
    /\ elapsed' = elapsed + 1
    /\ UNCHANGED <<DUMMY_CALENDAR, ret, ncalls, reserved, concVars, agentVars>>

NextStore ==
    \/ CallGetAvailableSlots
    \/ CallCheckAvailability
    \/ CallBookSlot
    \/ CallGetBookedSlots
    \/ AdvanceClock

SpecStore == InitStore /\ [][NextStore]_vars

(***************************************************************************)
(* Concurrent callers of book_slot. Each caller runs the statements of     *)
(* book_slot one at a time; statements of different callers interleave in  *)
(* any order (nothing in layla_calendar.py takes a lock). A caller's local *)
(* `calendar` is a reference: 0 is the dict now in DUMMY_CALENDAR, k > 0   *)
(* is orphans[k], a dict that a later assignment has replaced.             *)
(***************************************************************************)
Callers == 1..NumCallers
ConcPids == {"rocky_001"}
ConcSlots == {<<Strftime(Today0), "10:00">>, <<Strftime(AddDays(Today0, 1)), "14:00">>}
ConcCustomer(c) ==
    IF c % 2 = 1 THEN [name |-> "laksh", phone |-> "3122037041"]
    ELSE [name |-> "Sarah Ahmed", phone |-> "0501234567"]

NoArgs == [property_id |-> "", date |-> "", time |-> ""]
NoResult == [success |-> FALSE, error |-> ""]

InitConc ==
    /\ DUMMY_CALENDAR = <<>>
    /\ now = Today0
    /\ ret = NoCall
    /\ ncalls = 0
    /\ elapsed = 0
    /\ reserved = {}
    /\ cpc = [c \in Callers |-> "idle"]
    /\ cargs = [c \in Callers |-> NoArgs]
    /\ cref = [c \in Callers |-> -1]
    /\ cslot = [c \in Callers |-> 0]
    /\ cret = [c \in Callers |-> NoResult]
    /\ orphans = <<>>
    /\ NoConversation

\* the dict a caller's `calendar` refers to
Calendar(c) ==
    IF cref[c] = 0 THEN DUMMY_CALENDAR[cargs[c].property_id] ELSE orphans[cref[c]]

\* book_slot(property_id, date, time, customer_name, customer_phone) is entered
ConcCall(c) ==
    /\ cpc[c] = "idle"
    /\ \E property_id \in ConcPids, s \in ConcSlots :
          cargs' = [cargs EXCEPT ![c] =
                      [property_id |-> property_id, date |-> s[1], time |-> s[2]]]
    /\ cpc' = [cpc EXCEPT ![c] = "check"]
    /\ UNCHANGED <<agentVars, storeVars, cref, cslot, cret, orphans>>

\* line 101: if property_id not in DUMMY_CALENDAR
ConcCheck(c) ==
    /\ cpc[c] = "check"
    /\ cpc' = [cpc EXCEPT ![c] =
                  IF cargs[c].property_id \notin DOMAIN DUMMY_CALENDAR
                  THEN "init_check" ELSE "get"]
    /\ UNCHANGED <<agentVars, storeVars, cargs, cref, cslot, cret, orphans>>

\* line 14: if property_id not in DUMMY_CALENDAR, in initialize_calendar_for_property
ConcInitCheck(c) ==
    /\ cpc[c] = "init_check"
    /\ cpc' = [cpc EXCEPT ![c] =
                  IF cargs[c].property_id \notin DOMAIN DUMMY_CALENDAR
                  THEN "init_store" ELSE "get"]
    /\ UNCHANGED <<agentVars, storeVars, cargs, cref, cslot, cret, orphans>>

\* lines 16-33: DUMMY_CALENDAR[property_id] = {fresh slots, no bookings}; a
\* dict this replaces lives on for the callers that hold a reference to it
ConcInitStore(c) ==
    LET p == cargs[c].property_id
        fresh == [available_slots |-> NewSlots(now), booked_slots |-> <<>>]
        replaced == p \in DOMAIN DUMMY_CALENDAR IN
    /\ cpc[c] = "init_store"
    /\ DUMMY_CALENDAR' =
          [q \in (DOMAIN DUMMY_CALENDAR) \cup {p} |->
              IF q = p THEN fresh ELSE DUMMY_CALENDAR[q]]
    /\ orphans' = IF replaced THEN Append(orphans, DUMMY_CALENDAR[p]) ELSE orphans
    /\ cref' = [d \in Callers |->
                  IF replaced /\ cref[d] = 0 /\ cargs[d].property_id = p
                  THEN Len(orphans) + 1 ELSE cref[d]]
    /\ cpc' = [cpc EXCEPT ![c] = "get"]
    /\ UNCHANGED <<agentVars, now, ret, ncalls, elapsed, reserved, cargs, cslot, cret>>

\* lines 104-109 and 129: calendar = DUMMY_CALENDAR[property_id], and the loop
\* up to the slot with the date and time (dates and times are never written)
ConcGet(c) ==
    LET i == FindSlot(DUMMY_CALENDAR[cargs[c].property_id].available_slots,
                      cargs[c].date, cargs[c].time, 1) IN
    /\ cpc[c] = "get"
    /\ cref' = [cref EXCEPT ![c] = 0]
    /\ cslot' = [cslot EXCEPT ![c] = i]
    /\ IF i = 0
       THEN /\ cpc' = [cpc EXCEPT ![c] = "done"]
            /\ cret' = [cret EXCEPT ![c] = [success |-> FALSE, error |-> "Slot not found"]]
       ELSE /\ cpc' = [cpc EXCEPT ![c] = "test"]
            /\ cret' = cret
    /\ UNCHANGED <<agentVars, storeVars, cargs, orphans>>

\* line 110: if not slot["available"]: return the error dict
ConcTest(c) ==
    /\ cpc[c] = "test"
    /\ IF ~Calendar(c).available_slots[cslot[c]].available
       THEN /\ cpc' = [cpc EXCEPT ![c] = "done"]
            /\ cret' = [cret EXCEPT ![c] =
                          [success |-> FALSE, error |-> "Slot is already booked"]]
       ELSE /\ cpc' = [cpc EXCEPT ![c] = "mark"]
            /\ cret' = cret
    /\ UNCHANGED <<agentVars, storeVars, cargs, cref, cslot, orphans>>

\* a write to the dict a caller's `calendar` refers to
ConcWrite(c, new) ==
    IF cref[c] = 0
    THEN /\ DUMMY_CALENDAR' = [DUMMY_CALENDAR EXCEPT ![cargs[c].property_id] = new]
         /\ orphans' = orphans
    ELSE /\ orphans' = [orphans EXCEPT ![cref[c]] = new]
         /\ DUMMY_CALENDAR' = DUMMY_CALENDAR

\* line 115: slot["available"] = False
ConcMark(c) ==
    /\ cpc[c] = "mark"
    /\ ConcWrite(c, [Calendar(c) EXCEPT !.available_slots[cslot[c]].available = FALSE])
    /\ cpc' = [cpc EXCEPT ![c] = "append"]
    /\ UNCHANGED <<agentVars, now, ret, ncalls, elapsed, reserved, cargs, cref, cslot, cret>>

\* lines 119-127 and 135-143: calendar["booked_slots"].append(booking), return
ConcAppend(c) ==
    LET cust == ConcCustomer(c) IN
    /\ cpc[c] = "append"
    /\ ConcWrite(c, [Calendar(c) EXCEPT !.booked_slots =
            Append(@, NewBooking(cargs[c].date, cargs[c].time, cust.name, cust.phone, now))])
    /\ cpc' = [cpc EXCEPT ![c] = "done"]
    /\ cret' = [cret EXCEPT ![c] =
            Booked(cargs[c].property_id, cargs[c].date, cargs[c].time, cust.name, cust.phone)]
    /\ UNCHANGED <<agentVars, now, ret, ncalls, elapsed, reserved, cargs, cref, cslot>>

NextConc ==
    \E c \in Callers :
        \/ ConcCall(c)
        \/ ConcCheck(c)
        \/ ConcInitCheck(c)
        \/ ConcInitStore(c)
        \/ ConcGet(c)
        \/ ConcTest(c)
        \/ ConcMark(c)
        \/ ConcAppend(c)

SpecConc == InitConc /\ [][NextConc]_vars

(***************************************************************************)
(* Claims on concurrent callers (SpecConc).                                *)
(***************************************************************************)
\* the callers to which book_slot has returned success for a triple
Winners(property_id, date, time) ==
    {c \in Callers :
        /\ cpc[c] = "done" /\ cret[c].success
        /\ cargs[c] = [property_id |-> property_id, date |-> date, time |-> time]}

\* C2: atomic reserve. When callers run book_slot concurrently for the same
\* (property_id, date, time), at most one of them gets success and at most
\* one booking for that slot is recorded.
C2_AtomicReserve ==
    \A p \in ConcPids, s \in ConcSlots :
        /\ Cardinality(Winners(p, s[1], s[2])) <= 1
        /\ p \in DOMAIN DUMMY_CALENDAR =>
              CountAt(DUMMY_CALENDAR[p].booked_slots, s[1], s[2]) <= 1

(***************************************************************************)
(* Claims on the sequential store (SpecStore).                             *)
(***************************************************************************)
\* a step of the store that is a call of book_slot
BookStep == ncalls' = ncalls + 1 /\ ret'.op = "book_slot"

\* C1: slot exclusivity. For every resource and every offered slot, the first
\* book_slot for the triple succeeds with a confirmation id and every later
\* book_slot for the same triple fails, whatever customer it carries.
C1_SlotExclusivity ==
    [][BookStep =>
        LET r == ret'.property_id
            d == ret'.date
            t == ret'.time IN
        IF <<r, d, t>> \in reserved
        THEN ~ret'.result.success
        ELSE Offered(DUMMY_CALENDAR', r, d, t) =>
                /\ ret'.result.success
                /\ ret'.result.confirmation_id # ""]_vars

\* a later call for a booked slot, by another customer, has just been refused
C1_Witness ==
    /\ ret.op = "book_slot"
    /\ ~ret.result.success
    /\ <<ret.property_id, ret.date, ret.time>> \in reserved
    /\ \E i \in 1..Len(DUMMY_CALENDAR[ret.property_id].booked_slots) :
          LET b == DUMMY_CALENDAR[ret.property_id].booked_slots[i] IN
          /\ b.date = ret.date /\ b.time = ret.time
          /\ b.customer_name # ret.customer_name

\* C6: a failed reserve changes nothing. book_slot fails when the slot is not
\* offered or is offered but already booked, and then every slot's flag and
\* the booked list are as before the call (as the lazily created calendar has
\* them when the resource was not known yet).
C6_FailedReserveChangesNothing ==
    [][BookStep =>
        \A before \in {initialize_calendar_for_property(DUMMY_CALENDAR, ret'.property_id, now)} :
        LET r == ret'.property_id
            i == FindSlot(before[r].available_slots, ret'.date, ret'.time, 1) IN
        /\ (i = 0 \/ ~before[r].available_slots[i].available) => ~ret'.result.success
        /\ ~ret'.result.success => DUMMY_CALENDAR' = before]_vars

\* a call for a slot that is not offered has failed on a resource with a booking
C6_Witness ==
    /\ ret.op = "book_slot"
    /\ ~ret.result.success
    /\ ret.result.error = "Slot not found"
    /\ DUMMY_CALENDAR[ret.property_id].booked_slots # <<>>

\* C7: effect of a successful reserve. Exactly the slot (d,t) of r becomes
\* unavailable, exactly one booking with d, t, name and phone is appended to
\* r's booked list, the confirmation id is the one of (r,d,t), and every
\* other slot of r and every other resource's calendar is unchanged.
C7_SuccessfulReserveEffect ==
    [][(BookStep /\ ret'.result.success) =>
        \A before \in {initialize_calendar_for_property(DUMMY_CALENDAR, ret'.property_id, now)} :
        LET r == ret'.property_id
            old == before[r].available_slots
            new == DUMMY_CALENDAR'[r].available_slots
            booked == DUMMY_CALENDAR'[r].booked_slots IN
        /\ DOMAIN DUMMY_CALENDAR' = DOMAIN before
        /\ \A p \in DOMAIN before \ {r} : DUMMY_CALENDAR'[p] = before[p]
        /\ Len(new) = Len(old)
        /\ \A i \in 1..Len(old) :
              IF old[i].date = ret'.date /\ old[i].time = ret'.time
              THEN old[i].available /\ new[i] = [old[i] EXCEPT !.available = FALSE]
              ELSE new[i] = old[i]
        /\ CountAt(old, ret'.date, ret'.time) = 1
        /\ Len(booked) = Len(before[r].booked_slots) + 1
        /\ SubSeq(booked, 1, Len(booked) - 1) = before[r].booked_slots
        /\ LET b == booked[Len(booked)] IN
              /\ b.date = ret'.date /\ b.time = ret'.time
              /\ b.customer_name = ret'.customer_name
              /\ b.customer_phone = ret'.customer_phone
        /\ ret'.result.confirmation_id = confirmation_id(r, ret'.date, ret'.time)]_vars

\* a second slot of a resource has been reserved while another resource has a booking
C7_Witness ==
    /\ ret.op = "book_slot"
    /\ ret.result.success
    /\ Len(DUMMY_CALENDAR[ret.property_id].booked_slots) = 2
    /\ \E p \in DOMAIN DUMMY_CALENDAR :
          p # ret.property_id /\ DUMMY_CALENDAR[p].booked_slots # <<>>

(***************************************************************************)
(* The tools (layla_agent.py lines 48-255) and the property store they     *)
(* read (layla_search.py). A tool call is [name, args, id]; an argument    *)
(* that is not passed is the empty string.                                 *)
(***************************************************************************)
ToolArgs == [property_id |-> "", date |-> "", query |-> "", lead_name |-> "", lead_phone |-> ""]
ToolCall(name, args, id) == [name |-> name, args |-> args, id |-> id]

\* ", ".join(list)
RECURSIVE Join(_, _)
Join(list, sep) ==
    IF list = <<>> THEN ""
    ELSE IF Len(list) = 1 THEN list[1]
    ELSE list[1] \o sep \o Join(Tail(list), sep)

\* the collection of the vector store: point id -> payload (a sample listing)
Catalog ==
    1 :> [property_id |-> "rocky_001", location |-> "Marina Heights", area |-> "Dubai Marina",
          city |-> "Dubai", bedrooms |-> "2", bathrooms |-> "2", monthly_rent |-> 8500,
          yearly_rent |-> 102000, sqft |-> "1200", property_type |-> "Apartment",
          furnished |-> "True", parking |-> "True", parking_spots |-> "1",
          amenities |-> "['gym', 'pool']", pet_friendly |-> "False",
          security_24_7 |-> "True", nearby_metro |-> "DMCC", nearby_shops |-> "Marina Mall",
          url |-> "N/A", description |-> "Bright flat with gym and pool"]

\* property_id.replace("rocky_", "")
RECURSIVE RemoveAll(_, _)
RemoveAll(s, old) ==
    IF Len(s) < Len(old) THEN s
    ELSE IF SubSeq(s, 1, Len(old)) = old THEN RemoveAll(SubSeq(s, Len(old) + 1, Len(s)), old)
    ELSE Ch(s, 1) \o RemoveAll(SubSeq(s, 2, Len(s)), old)

\* layla_search.get_property_by_id: the payload of the point, found = FALSE for None
get_property_by_id(property_id) ==
    LET digits == IF StartsWith(property_id, "rocky_") THEN RemoveAll(property_id, "rocky_")
                  ELSE property_id IN
    IF IsDigit(digits) /\ Int_(digits) \in DOMAIN Catalog
    THEN [found |-> TRUE, payload |-> Catalog[Int_(digits)]]
    ELSE [found |-> FALSE]

get_property_details_tool(property_id) ==
    LET property_data == get_property_by_id(property_id) IN
    IF ~property_data.found
    THEN "Property " \o property_id \o " not found. Please check the property ID."
    ELSE LET payload == property_data.payload IN
         "\nFull Property Details:\n"
         \o "- Property ID: " \o payload.property_id \o "\n"
         \o "- Location: " \o payload.location \o "\n"
         \o "- Area: " \o payload.area \o "\n"
         \o "- City: " \o payload.city \o "\n"
         \o "- Bedrooms: " \o payload.bedrooms \o "\n"
         \o "- Bathrooms: " \o payload.bathrooms \o "\n"
         \o "- Monthly Rent: AED " \o ToString(payload.monthly_rent) \o "\n"
         \o "- Yearly Rent: AED " \o ToString(payload.yearly_rent) \o "\n"
         \o "- Square Feet: " \o payload.sqft \o "\n"
         \o "- Property Type: " \o payload.property_type \o "\n"
         \o "- Furnished: " \o payload.furnished \o "\n"
         \o "- Parking: " \o payload.parking \o "\n"
         \o "- Parking Spots: " \o payload.parking_spots \o "\n"
         \o "- Amenities: " \o payload.amenities \o "\n"
         \o "- Pet Friendly: " \o payload.pet_friendly \o "\n"
         \o "- Security 24/7: " \o payload.security_24_7 \o "\n"
         \o "- Nearby Metro: " \o payload.nearby_metro \o "\n"
         \o "- Nearby Shops: " \o payload.nearby_shops \o "\n"
         \o "- URL: " \o payload.url \o "\n"
         \o "- Description: " \o payload.description \o "\n"

check_availability_tool(property_id) ==
    IF ~get_property_by_id(property_id).found
    THEN "Property " \o property_id \o " not found."
    ELSE "Property " \o property_id \o " is currently available for rent."

\* the order of str comparison on the characters of dates and times
CharOrder == "-0123456789:"
CharRank(c) == CHOOSE i \in 1..Len(CharOrder) : Ch(CharOrder, i) = c

RECURSIVE StrLess(_, _)
StrLess(a, b) ==
    IF a = "" THEN b # ""
    ELSE IF b = "" THEN FALSE
    ELSE IF Ch(a, 1) = Ch(b, 1) THEN StrLess(Tail(a), Tail(b))
    ELSE CharRank(Ch(a, 1)) < CharRank(Ch(b, 1))

\* sorted(strings)
RECURSIVE Sorted(_)
Sorted(strings) ==
    IF strings = {} THEN <<>>
    ELSE Let(CHOOSE a \in strings : \A b \in strings \ {a} : StrLess(a, b),
             LAMBDA least : <<least>> \o Sorted(strings \ {least}))

\* lines 203-205: the lines of one date
RECURSIVE TimeLines(_)
TimeLines(times) ==
    IF times = <<>> THEN ""
    ELSE "  - " \o Head(times) \o "\n" \o TimeLines(Tail(times))

\* lines 201-206: the lines of the dates
RECURSIVE DateLines(_, _)
DateLines(dates, slots) ==
    IF dates = <<>> THEN ""
    ELSE Head(dates) \o ":\n"
         \o TimeLines(Sorted({slots[i].time : i \in {i \in 1..Len(slots) :
                                                   slots[i].date = Head(dates)}}))
         \o "\n" \o DateLines(Tail(dates), slots)

\* get_tour_slots_tool: the store after the call and the text returned
get_tour_slots_tool(cal0, property_id, date, today) ==
    Let(initialize_calendar_for_property(cal0, property_id, today), LAMBDA cal :
    Let(get_available_slots(cal, property_id, date), LAMBDA slots :
    [cal |-> cal,
     content |->
        IF slots = <<>>
        THEN IF date # ""
             THEN "No available tour slots found for property " \o property_id
                  \o " on " \o date \o "."
             ELSE "No available tour slots found for property " \o property_id
                  \o " in the next 7 days."
        ELSE Strip("Available tour slots for property " \o property_id \o ":\n\n"
                   \o DateLines(Sorted({slots[i].date : i \in 1..Len(slots)}), slots))]))

book_tour_smart_tool == "Checking booking information..."

sync_to_crm_tool(lead_name, lead_phone) ==
    "Lead information synced to CRM successfully. Lead: " \o lead_name
    \o " (" \o lead_phone \o ")"

\* layla_search.format_property_for_context
format_property_for_context(payload, score_str, index) ==
    "\nProperty " \o ToString(index) \o " (Similarity Score: " \o score_str \o "):\n"
    \o "- Property ID: " \o payload.property_id \o "\n"
    \o "- Location: " \o payload.location \o "\n"
    \o "- Bedrooms: " \o payload.bedrooms \o "\n"
    \o "- Bathrooms: " \o payload.bathrooms \o "\n"
    \o "- Monthly Rent: AED " \o ToString(payload.monthly_rent) \o "\n"
    \o "- Yearly Rent: AED " \o ToString(payload.yearly_rent) \o "\n"
    \o "- Square Feet: " \o payload.sqft \o "\n"
    \o "- Furnished: " \o payload.furnished \o "\n"
    \o "- Parking: " \o payload.parking \o "\n"
    \o "- Amenities: " \o payload.amenities \o "\n"
    \o "- URL: " \o payload.url \o "\n"
    \o "- Description: " \o SubSeq(payload.description, 1,
                                 IF Len(payload.description) < 200
                                 THEN Len(payload.description) ELSE 200)
    \o "...\n"

\* layla_search.format_properties_for_context
RECURSIVE format_properties_for_context(_, _)
format_properties_for_context(properties, index) ==
    IF properties = <<>> THEN ""
    ELSE format_property_for_context(Catalog[Head(properties).id], Head(properties).score, index)
         \o (IF Len(properties) > 1
             THEN "\n" \o format_properties_for_context(Tail(properties), index + 1)
             ELSE "")

\* search_properties_tool, for the points the vector search returned
search_properties_tool(properties) ==
    IF properties = <<>>
    THEN "No properties found matching your criteria. Please try adjusting your search."
    ELSE format_properties_for_context(properties, 1)

\* what the vector search returns for a query: nothing, or the sample listing
SearchHits == {<<>>, <<[id |-> 1, score |-> "0.4512"]>>}

ToolNames == {"search_properties_tool", "get_property_details_tool",
              "check_availability_tool", "get_tour_slots_tool",
              "book_tour_smart_tool", "sync_to_crm_tool"}

\* ToolNode(tools) on one call: the store after the call and the content of
\* the ToolMessage
run_tool(tc, cal, today, hits) ==
    CASE tc.name = "search_properties_tool" ->
            [cal |-> cal, content |-> search_properties_tool(hits)]
      [] tc.name = "get_property_details_tool" ->
            [cal |-> cal, content |-> get_property_details_tool(tc.args.property_id)]
      [] tc.name = "check_availability_tool" ->
            [cal |-> cal, content |-> check_availability_tool(tc.args.property_id)]
      [] tc.name = "get_tour_slots_tool" ->
            get_tour_slots_tool(cal, tc.args.property_id, tc.args.date, today)
      [] tc.name = "book_tour_smart_tool" ->
            [cal |-> cal, content |-> book_tour_smart_tool]
      [] tc.name = "sync_to_crm_tool" ->
            [cal |-> cal, content |-> sync_to_crm_tool(tc.args.lead_name, tc.args.lead_phone)]
      [] OTHER ->
            \* ToolNode answers a name that is none of the tools with an error
            [cal |-> cal,
             content |-> "Error: " \o tc.name \o " is not a valid tool, try one of ["
                         \o "search_properties_tool, get_property_details_tool, "
                         \o "check_availability_tool, get_tour_slots_tool, "
                         \o "book_tour_smart_tool, sync_to_crm_tool]."]

\* tool_node.invoke(state): one ToolMessage for each call of the last message
RECURSIVE tool_node(_, _, _, _)
tool_node(tool_calls, cal, today, hits) ==
    IF tool_calls = <<>> THEN [cal |-> cal, messages |-> <<>>]
    ELSE Let(run_tool(Head(tool_calls), cal, today, hits), LAMBDA r :
         Let(tool_node(Tail(tool_calls), r.cal, today, hits), LAMBDA more :
             [cal |-> more.cal,
              messages |-> <<ToolMessage(r.content, Head(tool_calls).id)>>
                           \o more.messages]))

(***************************************************************************)
(* custom_tool_node                                                        *)
(***************************************************************************)
placeholder_names == {"layla", "customer", "user", "test", "demo", "example", "placeholder"}
placeholder_phones == {"1234567890", "0000000000", "1111111111", "123456789", "00000000"}

\* mutant: the check of the property selection is left out
missing_requirements_without_property(lead_info, tour_details, property_id) ==
    (IF tour_details.date = "" THEN <<"tour date">> ELSE <<>>)
    \o (IF tour_details.time = "" THEN <<"tour time">> ELSE <<>>)
    \o (IF lead_info.name = "" THEN <<"your name">> ELSE <<>>)
    \o (IF lead_info.phone = "" THEN <<"your phone number">> ELSE <<>>)

\* lines 304-314: what is missing
missing_requirements(lead_info, tour_details, property_id) ==
    (IF property_id = "" THEN <<"property selection">> ELSE <<>>)
    \o (IF tour_details.date = "" THEN <<"tour date">> ELSE <<>>)
    \o (IF tour_details.time = "" THEN <<"tour time">> ELSE <<>>)
    \o (IF lead_info.name = "" THEN <<"your name">> ELSE <<>>)
    \o (IF lead_info.phone = "" THEN <<"your phone number">> ELSE <<>>)

\* lines 317-323: the placeholder values, added after what is missing
placeholder_values(lead_info) ==
    (IF lead_info.name # "" /\ Lower(lead_info.name) \in placeholder_names
     THEN <<"your actual name (not a placeholder)">> ELSE <<>>)
    \o (IF lead_info.phone # "" /\ lead_info.phone \in placeholder_phones
        THEN <<"your actual phone number (not a placeholder)">> ELSE <<>>)

\* line 329
missing_message(missing) ==
    "I need the following information to book your tour: " \o Join(missing, ", ")
    \o ". Please provide this information."

\* lines 347-358
confirmation_message(confirmation, property_id, tour_details, lead_info) ==
    "\nTour booking confirmed!\n\nConfirmation ID: " \o confirmation
    \o "\nProperty ID: " \o property_id
    \o "\nDate: " \o tour_details.date
    \o "\nTime: " \o tour_details.time
    \o "\nCustomer: " \o lead_info.name
    \o "\nPhone: " \o lead_info.phone
    \o "\n\nWe'll send you a reminder 1 hour before your tour.\n"

\* the first call of the batch that is a call of book_tour_smart_tool, 0 if none
RECURSIVE smart_booking_tool_call(_, _)
smart_booking_tool_call(tool_calls, i) ==
    IF i > Len(tool_calls) THEN 0
    ELSE IF tool_calls[i].name = "book_tour_smart_tool" THEN i
    ELSE smart_booking_tool_call(tool_calls, i + 1)

\* lines 290-368: the smart booking, answered with one ToolMessage
smart_booking(state, cal, today, tool_call_id) ==
    LET lead_info == state.lead_info
        tour_details == state.tour_details
        property_id == IF tour_details.property_id # "" THEN tour_details.property_id
                       ELSE state.selected_property.property_id
        missing == missing_requirements(lead_info, tour_details, property_id)
                   \o placeholder_values(lead_info) IN
    IF missing # <<>>
    THEN [cal |-> cal, messages |-> <<ToolMessage(missing_message(missing), tool_call_id)>>]
    ELSE Let(book_slot(cal, property_id, tour_details.date, tour_details.time,
                       lead_info.name, lead_info.phone, today), LAMBDA r :
         [cal |-> r.cal,
          messages |->
            <<ToolMessage(
                IF r.result.success
                THEN confirmation_message(r.result.confirmation_id, property_id,
                                          tour_details, lead_info)
                ELSE "Booking failed: " \o r.result.error,
                tool_call_id)>>])

\* the store after the node and the messages of the dict it returns
custom_tool_node(state, cal, today, hits) ==
    LET tool_calls == state.messages[Len(state.messages)].tool_calls
        i == smart_booking_tool_call(tool_calls, 1) IN
    IF i # 0 THEN smart_booking(state, cal, today, tool_calls[i].id)
    ELSE tool_node(tool_calls, cal, today, hits)

(***************************************************************************)
(* layla_agent_node and the routing after it                               *)
(***************************************************************************)
base_prompt ==
    "You are Layla, a friendly and professional leasing agent for Rocky Real Estate in Dubai.\n"
    \o "\n"
    \o "Your role:\n"
    \o "- Help customers find properties that match their needs\n"
    \o "- Answer questions about properties, pricing, amenities, and availability\n"
    \o "- Book property tours when customers are ready\n"
    \o "- Sync lead information to CRM when appropriate\n"
    \o "\n"
    \o "Guidelines:\n"
    \o "- Be warm, helpful, and professional\n"
    \o "- When users say \"the first one\" or \"that property\", refer to the most recent search results or selected property\n"
    \o "- Always confirm tour details before booking\n"
    \o "- Use the search_properties_tool for property searches - decide on score_threshold based on query specificity:\n"
    \o "  * Lower threshold (0.25-0.3) for exploratory queries like \"properties with gym\"\n"
    \o "  * Higher threshold (0.4-0.5) for specific queries with exact criteria\n"
    \o "- Use structured filters (bedrooms, price) when the user specifies exact criteria\n"
    \o "- For fuzzy queries (amenities, location), rely on semantic search\n"
    \o "\n"
    \o "Using State Information:\n"
    \o "- Check the \"Current State\" section below to see what information you already have\n"
    \o "- When the user wants to book a tour, call book_tour_smart_tool() - it will automatically check what's needed\n"
    \o "- Only ask for information that is MISSING from state\n"
    \o "\n"
    \o "Remember: You maintain conversation context, so you can reference previous messages and search results."

\* lines 405-427: the lines of the remembered information
state_info(state) ==
    (IF state.lead_info.name # ""
     THEN <<"- Customer name: " \o state.lead_info.name>> ELSE <<>>)
    \o (IF state.lead_info.phone # ""
        THEN <<"- Customer phone: " \o state.lead_info.phone>> ELSE <<>>)
    \o (IF state.lead_info.email # ""
        THEN <<"- Customer email: " \o state.lead_info.email>> ELSE <<>>)
    \o (IF state.tour_details.date # ""
        THEN <<"- Tour date: " \o state.tour_details.date>> ELSE <<>>)
    \o (IF state.tour_details.time # ""
        THEN <<"- Tour time: " \o state.tour_details.time>> ELSE <<>>)
    \o (IF state.tour_details.property_id # ""
        THEN <<"- Property ID: " \o state.tour_details.property_id>> ELSE <<>>)
    \o (IF state.selected_property.property_id # ""
        THEN <<"- Selected property: " \o state.selected_property.property_id>> ELSE <<>>)

get_system_prompt(state) ==
    IF state_info(state) # <<>>
    THEN base_prompt \o "\n\nCurrent State (Remembered Information):\n"
         \o Join(state_info(state), "\n")
    ELSE base_prompt

\* line 625: some message that is a BaseMessage has "Layla" in its content
mentions_layla(messages) ==
    \E i \in 1..Len(messages) :
        messages[i].base /\ Contains(messages[i].content, "Layla")

\* lines 629-632: the state's list of messages after the node has run; its
\* first entry is overwritten in place when it is a HumanMessage with "Layla"
agent_messages(state) ==
    IF mentions_layla(state.messages)
       /\ state.messages[1].base /\ state.messages[1].type = "human"
       /\ Contains(state.messages[1].content, "Layla")
    THEN [state.messages EXCEPT ![1] = HumanMessage(get_system_prompt(state))]
    ELSE state.messages

\* lines 625-634: the list llm_with_tools.invoke is called with
llm_input(state) ==
    IF ~mentions_layla(state.messages)
    THEN <<HumanMessage(get_system_prompt(state))>> \o state.messages
    ELSE agent_messages(state)

\* mutant: the checks in the opposite order, a search wins over the others
stage_after_search_last(workflow_stage, tool_names) ==
    LET s1 == IF "book_tour_smart_tool" \in tool_names \/ "get_tour_slots_tool" \in tool_names
              THEN "booking" ELSE workflow_stage
        s2 == IF "get_property_details_tool" \in tool_names THEN "viewing" ELSE s1 IN
    IF "search_properties_tool" \in tool_names THEN "searching" ELSE s2

\* lines 648-671: the stage after the tool calls of the response
stage_after(workflow_stage, tool_names) ==
    LET s1 == IF "search_properties_tool" \in tool_names THEN "searching" ELSE workflow_stage
        s2 == IF "get_property_details_tool" \in tool_names THEN "viewing" ELSE s1 IN
    IF "book_tour_smart_tool" \in tool_names \/ "get_tour_slots_tool" \in tool_names
    THEN "booking" ELSE s2

\* mutant: the dict is built without the search results of the state
layla_agent_node_without_search_results(state, response) ==
    LET tool_names == {response.tool_calls[i].name : i \in 1..Len(response.tool_calls)}
        details == SelectSeq(response.tool_calls,
                             LAMBDA tc : tc.name = "get_property_details_tool"
                                         /\ tc.args.property_id # "")
        property_id == details[Len(details)].args.property_id IN
    [messages |-> <<response>>,
     lead_info |-> state.lead_info,
     tour_details |-> IF details # <<>>
                      THEN [state.tour_details EXCEPT !.property_id = property_id]
                      ELSE state.tour_details,
     selected_property |-> IF details # <<>> THEN [property_id |-> property_id]
                           ELSE state.selected_property,
     search_results |-> <<>>,
     workflow_stage |-> IF response.tool_calls # <<>>
                        THEN stage_after(state.workflow_stage, tool_names)
                        ELSE state.workflow_stage]

\* mutant: a property the tour has is not replaced by the selected one
layla_agent_node_keeps_tour_property(state, response) ==
    LET tool_names == {response.tool_calls[i].name : i \in 1..Len(response.tool_calls)}
        details == SelectSeq(response.tool_calls,
                             LAMBDA tc : tc.name = "get_property_details_tool"
                                         /\ tc.args.property_id # "")
        property_id == details[Len(details)].args.property_id IN
    [messages |-> <<response>>,
     lead_info |-> state.lead_info,
     tour_details |-> IF details # <<>> /\ state.tour_details.property_id = ""
                      THEN [state.tour_details EXCEPT !.property_id = property_id]
                      ELSE state.tour_details,
     selected_property |-> IF details # <<>> THEN [property_id |-> property_id]
                           ELSE state.selected_property,
     search_results |-> state.search_results,
     workflow_stage |-> IF response.tool_calls # <<>>
                        THEN stage_after(state.workflow_stage, tool_names)
                        ELSE state.workflow_stage]

\* the dict layla_agent_node returns when the model answers with response
layla_agent_node(state, response) ==
    LET tool_names == {response.tool_calls[i].name : i \in 1..Len(response.tool_calls)}
        details == SelectSeq(response.tool_calls,
                             LAMBDA tc : tc.name = "get_property_details_tool"
                                         /\ tc.args.property_id # "")
        property_id == details[Len(details)].args.property_id IN
    [messages |-> <<response>>,
     lead_info |-> state.lead_info,
     tour_details |-> IF details # <<>>
                      THEN [state.tour_details EXCEPT !.property_id = property_id]
                      ELSE state.tour_details,
     selected_property |-> IF details # <<>> THEN [property_id |-> property_id]
                           ELSE state.selected_property,
     search_results |-> state.search_results,
     workflow_stage |-> IF response.tool_calls # <<>>
                        THEN stage_after(state.workflow_stage, tool_names)
                        ELSE state.workflow_stage]

\* mutant: the graph ends after every answer of the model
route_after_agent_always_end(state) == "end"

route_after_agent(state) ==
    IF state.messages[Len(state.messages)].tool_calls # <<>> THEN "tools" ELSE "end"

(***************************************************************************)
(* A conversation: the caller holds the state between turns, run_layla     *)
(* runs one turn of the graph START -> extract -> agent -> (tools ->       *)
(* extract -> agent)* -> END on it. The model (llm_with_tools) is free to  *)
(* answer with a reply or with a batch of tool calls, or to raise.         *)
(***************************************************************************)
\* run_layla lines 732-739: the state of a conversation that has none
EmptyState ==
    [messages |-> <<>>,
     selected_property |-> [property_id |-> ""],
     search_results |-> <<>>,
     lead_info |-> [name |-> "", phone |-> "", email |-> ""],
     workflow_stage |-> "searching",
     tour_details |-> [property_id |-> "", date |-> "", time |-> ""]]

\* a state a caller passes in that was not made by run_layla in this run
ResumedState ==
    [EmptyState EXCEPT !.lead_info.email = "sarah@example.com",
                       !.search_results = <<"rocky_002">>,
                       !.workflow_stage = "completed"]

\* what the user says in a turn
Utterances == {"laksh, 3122037041",
               "2pm tomorrow",
               "Hi Layla, my name is test",
               "Sarah Ahmed, 2222222222"}

\* the text of a reply of the model
Replies == {"Layla here. Sure."}

\* the batches of tool calls the model asks for
Batches(state) ==
    LET id == "call_" \o ToString(Len(state.messages)) IN
    {<<ToolCall("get_property_details_tool",
                [ToolArgs EXCEPT !.property_id = "rocky_001"], id)>>,
     <<ToolCall("get_tour_slots_tool",
                [ToolArgs EXCEPT !.property_id = "rocky_001",
                                 !.date = Strftime(AddDays(Today0, 1))], id)>>,
     <<ToolCall("book_tour_smart_tool", ToolArgs, id)>>,
     \* a name that is none of the tools, with a tool of the standard node
     <<ToolCall("transfer_to_human", ToolArgs, id \o "_1"),
       ToolCall("get_property_details_tool",
                [ToolArgs EXCEPT !.property_id = "rocky_002"], id \o "_2")>>,
     \* the smart booking together with other calls
     <<ToolCall("transfer_to_human", ToolArgs, id \o "_1"),
       ToolCall("book_tour_smart_tool", ToolArgs, id \o "_2")>>,
     <<ToolCall("get_tour_slots_tool",
                [ToolArgs EXCEPT !.property_id = "rocky_001",
                                 !.date = Strftime(AddDays(Today0, 1))], id \o "_1"),
       ToolCall("book_tour_smart_tool", ToolArgs, id \o "_2")>>,
     \* the smart booking asked for twice
     <<ToolCall("book_tour_smart_tool", ToolArgs, id \o "_1"),
       ToolCall("book_tour_smart_tool", ToolArgs, id \o "_2")>>,
     \* a search after the details of a property, in one batch
     <<ToolCall("get_property_details_tool",
                [ToolArgs EXCEPT !.property_id = "rocky_001"], id \o "_1"),
       ToolCall("search_properties_tool",
                [ToolArgs EXCEPT !.query = "2 bedroom in marina"], id \o "_2")>>,
     <<ToolCall("search_properties_tool",
                [ToolArgs EXCEPT !.query = "2 bedroom in marina"], id)>>}

LLMResponses(state) ==
    {AIMessage(content, <<>>) : content \in Replies}
    \cup {AIMessage("", tool_calls) : tool_calls \in Batches(state)}

InitAgent ==
    /\ DUMMY_CALENDAR = <<>>
    /\ now = Today0
    /\ ret = NoCall
    /\ ncalls = 0
    /\ elapsed = 0
    /\ reserved = {}
    /\ cpc = <<>> /\ cargs = <<>> /\ cref = <<>> /\ cslot = <<>> /\ cret = <<>>
    /\ orphans = <<>>
    /\ conv \in {NoState, ResumedState}
    /\ prior = NoState
    /\ st = NoState
    /\ pc = "idle"
    /\ turns = 0
    /\ rounds = 0
    /\ outcome = "none"

\* run_layla(user_input, state) up to the start of the graph: the user's
\* message is appended to the caller's list, the graph starts on a copy
run_layla ==
    /\ pc = "idle"
    /\ turns < MaxTurns
    /\ \E user_input \in Utterances :
          LET state == IF conv = NoState THEN EmptyState ELSE conv
              appended == [state EXCEPT !.messages = Append(@, HumanMessage(user_input))] IN
          /\ conv' = IF conv = NoState THEN conv ELSE appended
          /\ st' = appended
    /\ prior' = conv
    /\ pc' = "extract"
    /\ turns' = turns + 1
    /\ rounds' = 0
    /\ outcome' = "running"
    /\ UNCHANGED <<storeVars, concVars>>

\* the node "extract"
Extract ==
    /\ pc = "extract"
    /\ st' = Merge(st, extract_information_node(st, now))
    /\ pc' = "agent"
    /\ UNCHANGED <<storeVars, concVars, conv, prior, turns, rounds, outcome>>

\* the node "agent" and route_after_agent; at END run_layla returns the last
\* dict the stream yielded, which is the dict this node returned
Agent ==
    /\ pc = "agent"
    /\ \E response \in LLMResponses(st) :
          /\ response.tool_calls # <<>> => rounds < MaxRounds
          /\ \E update \in {layla_agent_node(st, response)} :
             \E after \in {Merge([st EXCEPT !.messages = agent_messages(st)], update)} :
             IF route_after_agent(after) = "tools"
             THEN /\ st' = after
                  /\ pc' = "tools"
                  /\ UNCHANGED <<conv, outcome>>
             ELSE /\ conv' = update
                  /\ st' = NoState
                  /\ pc' = "idle"
                  /\ outcome' = "returned"
    /\ UNCHANGED <<storeVars, concVars, prior, turns, rounds>>

\* llm_with_tools.invoke raises: the exception leaves run_layla, the caller
\* keeps the state it passed in
AgentRaises ==
    /\ pc = "agent"
    /\ st' = NoState
    /\ pc' = "idle"
    /\ outcome' = "raised"
    /\ UNCHANGED <<storeVars, concVars, conv, prior, turns, rounds>>

\* mutant: the edge from "tools" leads to "agent"
Tools_then_agent ==
    /\ pc = "tools"
    /\ \E hits \in SearchHits :
       \E r \in {custom_tool_node(st, DUMMY_CALENDAR, now, hits)} :
          /\ st' = Merge(st, [messages |-> r.messages])
          /\ DUMMY_CALENDAR' = r.cal
    /\ pc' = "agent"
    /\ rounds' = rounds + 1
    /\ UNCHANGED <<now, ret, ncalls, elapsed, reserved, concVars, conv, prior, turns, outcome>>

\* mutant: the node "tools" marks the conversation completed
Tools_completes_stage ==
    /\ pc = "tools"
    /\ \E hits \in SearchHits :
       \E r \in {custom_tool_node(st, DUMMY_CALENDAR, now, hits)} :
          /\ st' = Merge(st, [messages |-> r.messages, workflow_stage |-> "completed"])
          /\ DUMMY_CALENDAR' = r.cal
    /\ pc' = "extract"
    /\ rounds' = rounds + 1
    /\ UNCHANGED <<now, ret, ncalls, elapsed, reserved, concVars, conv, prior, turns, outcome>>

\* the node "tools"
Tools ==
    /\ pc = "tools"
    /\ \E hits \in SearchHits :
       \E r \in {custom_tool_node(st, DUMMY_CALENDAR, now, hits)} :
          /\ st' = Merge(st, [messages |-> r.messages])
          /\ DUMMY_CALENDAR' = r.cal
    /\ pc' = "extract"
    /\ rounds' = rounds + 1
    /\ UNCHANGED <<now, ret, ncalls, elapsed, reserved, concVars, conv, prior, turns, outcome>>

Next ==
    \/ run_layla
    \/ Extract
    \/ Agent
    \/ AgentRaises
    \/ Tools

Spec == InitAgent /\ [][Next]_vars

\* a conversation that starts without a state: run_layla makes the empty one
InitFresh == InitAgent /\ conv = NoState

SpecFresh == InitFresh /\ [][Next]_vars

(***************************************************************************)
(* The conversation through POST /api/chat: the client holds the state of  *)
(* the last response as JSON and sends it back with the next message.      *)
(***************************************************************************)
\* a state as the JSON body carries it: ChatRequest.state is a dict parsed
\* from JSON, its messages are dicts of the fields of the messages
Json(state) ==
    IF state = NoState THEN NoState
    ELSE [state EXCEPT !.messages =
             [i \in 1..Len(state.messages) |-> [state.messages[i] EXCEPT !.base = FALSE]]]

\* chat, lines 69-71: run_layla(request.message, request.state) up to the
\* start of the graph; request.state is the state of the last response
chat ==
    /\ pc = "idle"
    /\ turns < MaxTurns
    /\ \E message \in Utterances :
          LET state == IF conv = NoState THEN EmptyState ELSE Json(conv) IN
          st' = [state EXCEPT !.messages = Append(@, HumanMessage(message))]
    /\ prior' = conv
    /\ pc' = "extract"
    /\ turns' = turns + 1
    /\ rounds' = 0
    /\ outcome' = "running"
    /\ UNCHANGED <<storeVars, concVars, conv>>

\* lines 72-82: the response carries the state run_layla returned; an
\* exception becomes HTTP 500 and the client keeps the state it has
NextChat ==
    \/ chat
    \/ Extract
    \/ Agent
    \/ AgentRaises
    \/ Tools

SpecChat == InitAgent /\ [][NextChat]_vars

\* graph.stream runs each node to its end and then the next one: a node that
\* is due runs and hands over to the node its edge names, and the model
\* answers (MaxRounds bounds its requests of tools)
SpecLive ==
    /\ InitAgent /\ [][Next]_vars
    /\ WF_pc(pc = "extract" /\ pc' = "agent")
    /\ WF_pc(pc = "agent" /\ pc' \in {"tools", "idle"})
    /\ WF_pc(pc = "tools" /\ pc' = "extract")

(***************************************************************************)
(* Claims on the conversation (Spec).                                      *)
(***************************************************************************)
LastMessage(state) == state.messages[Len(state.messages)]

\* a step of the node "tools" on a batch that calls book_tour_smart_tool
SmartBookingStep ==
    /\ pc = "tools" /\ pc' = "extract"
    /\ \E i \in 1..Len(LastMessage(st).tool_calls) :
          LastMessage(st).tool_calls[i].name = "book_tour_smart_tool"

\* a step after which some resource has more bookings than before
RecordsBooking ==
    \E p \in DOMAIN DUMMY_CALENDAR' :
        Len(DUMMY_CALENDAR'[p].booked_slots) > Len(get_booked_slots(DUMMY_CALENDAR, p))

\* the observations custom_tool_node makes of a call of book_slot
BookSlotObserved(content) ==
    StartsWith(content, "\nTour booking confirmed!") \/ StartsWith(content, "Booking failed: ")

\* the observation that asks for what is missing
MissingObserved(content) ==
    StartsWith(content, "I need the following information to book your tour: ")

\* the property the conversation state holds, in tour_details or selected_property
PropertyOf(state) ==
    IF state.tour_details.property_id # "" THEN state.tour_details.property_id
    ELSE state.selected_property.property_id

\* C3: booking commit gate. Over any sequence of turns, book_slot is called
\* by the smart booking (a booking is recorded, or the observation is the one
\* of a call of book_slot) only when the state holds a non-empty property id,
\* tour date, tour time, lead name and lead phone and neither name nor phone
\* is on the denylist; nothing else records a booking.
C3_BookingCommitGate ==
    [][(RecordsBooking \/ (SmartBookingStep /\ BookSlotObserved(LastMessage(st').content)))
        => /\ SmartBookingStep
           /\ PropertyOf(st) # ""
           /\ st.tour_details.date # ""
           /\ st.tour_details.time # ""
           /\ st.lead_info.name # ""
           /\ st.lead_info.phone # ""
           /\ Lower(st.lead_info.name) \notin placeholder_names
           /\ st.lead_info.phone \notin placeholder_phones]_vars

\* the smart booking has just recorded a booking and confirmed it
C3_Witness ==
    /\ pc = "extract"
    /\ LastMessage(st).type = "tool"
    /\ StartsWith(LastMessage(st).content, "\nTour booking confirmed!")
    /\ \E p \in DOMAIN DUMMY_CALENDAR : DUMMY_CALENDAR[p].booked_slots # <<>>

\* the requirements that are absent or invalid, in the priority order
\* property selection, tour date, tour time, name, phone
RequirementsInOrder(state) ==
    (IF PropertyOf(state) = "" THEN <<"property selection">> ELSE <<>>)
    \o (IF state.tour_details.date = "" THEN <<"tour date">> ELSE <<>>)
    \o (IF state.tour_details.time = "" THEN <<"tour time">> ELSE <<>>)
    \o (IF state.lead_info.name = "" THEN <<"your name">>
        ELSE IF Lower(state.lead_info.name) \in placeholder_names
        THEN <<"your actual name (not a placeholder)">> ELSE <<>>)
    \o (IF state.lead_info.phone = "" THEN <<"your phone number">>
        ELSE IF state.lead_info.phone \in placeholder_phones
        THEN <<"your actual phone number (not a placeholder)">> ELSE <<>>)

\* C4: booking gate order. When a requirement is absent (or a placeholder,
\* which counts as absent), the smart booking answers with the observation
\* that lists exactly these requirements in the priority order property
\* selection, tour date, tour time, name, phone, and leaves every slot and
\* every booked list of the store as it was; with only date and time known
\* the list is property selection, your name, your phone number.
C4_GateOrder ==
    [][(SmartBookingStep /\ RequirementsInOrder(st) # <<>>)
        => /\ LastMessage(st').content = missing_message(RequirementsInOrder(st))
           /\ DUMMY_CALENDAR' = DUMMY_CALENDAR]_vars

\* a number that repeats one digit
RepeatedDigit(phone) ==
    /\ phone # ""
    /\ IsDigit(phone)
    /\ \A i \in 1..Len(phone) : Ch(phone, i) = Ch(phone, 1)

\* C5: placeholder rejection. Whenever the lead name is a placeholder (in any
\* letter case) or the lead phone is a placeholder number or another
\* repeated-digit number, the smart booking answers with the
\* missing-requirements observation and reserves nothing, even when property,
\* date, time, name and phone are all populated.
C5_PlaceholderRejection ==
    [][(/\ SmartBookingStep
        /\ \/ Lower(st.lead_info.name) \in placeholder_names
           \/ st.lead_info.phone \in placeholder_phones
           \/ RepeatedDigit(st.lead_info.phone))
        => /\ MissingObserved(LastMessage(st').content)
           /\ DUMMY_CALENDAR' = DUMMY_CALENDAR]_vars

\* the fields of lead_info and tour_details
Facts(state) ==
    <<state.lead_info.name, state.lead_info.phone, state.lead_info.email,
      state.tour_details.property_id, state.tour_details.date, state.tour_details.time>>

\* every field that is non-empty before is non-empty after
Kept(before, after) ==
    \A i \in 1..Len(Facts(before)) : Facts(before)[i] # "" => Facts(after)[i] # ""

\* C8: facts never disappear. Every field of lead_info (name, phone, email)
\* and tour_details (property_id, date, time) that is non-empty stays
\* non-empty over every step of a turn (extract, agent, tools), from the
\* state the caller passes in to the state of the turn, and from there to the
\* state run_layla returns.
C8_FactsNeverDisappear ==
    [][/\ (st # NoState /\ st' # NoState) => Kept(st, st')
       /\ (conv # NoState /\ st' # NoState) => Kept(conv, st')
       /\ (st # NoState /\ conv' # NoState /\ conv' # conv) => Kept(st, conv')
       /\ (conv # NoState /\ conv' # NoState) => Kept(conv, conv')]_vars

\* in the second turn, after a round of tools and the extraction that follows
\* it, all six fields are known: the name, phone and email of earlier turns
\* have come through an utterance and an observation that do not carry them
C8_Witness ==
    /\ pc = "agent"
    /\ turns = 2
    /\ rounds = 1
    /\ LastMessage(st).type = "tool"
    /\ \A i \in 1..Len(Facts(st)) : Facts(st)[i] # ""

\* C9: facts come only from the user. When extract runs after tools, on a
\* ToolMessage (for example a listing of slots with ISO dates and HH:MM
\* times), a tour date or tour time already known, and the name and phone,
\* are left unchanged.
C9_FactsOnlyFromUser ==
    [][(pc = "extract" /\ pc' = "agent" /\ LastMessage(st).type = "tool")
        => /\ st'.lead_info.name = st.lead_info.name
           /\ st'.lead_info.phone = st.lead_info.phone
           /\ st.tour_details.date # "" => st'.tour_details.date = st.tour_details.date
           /\ st.tour_details.time # "" => st'.tour_details.time = st.tour_details.time]_vars

\* a name that is neither empty nor one of the fillers
ValidName(name) == name # "" /\ name \notin Fillers

\* the name a state holds, "" where there is no state
NameOf(state) == IF state = NoState THEN "" ELSE state.lead_info.name

\* C10: name non-regression. Once lead_info.name holds a valid (non-filler)
\* value, no later step of any turn clears it or changes it: not the
\* extractor on a message that claims no name, and not the extractor on a
\* message that does name somebody, which the code treats alike.
C10_NameNonRegression ==
    [][/\ (ValidName(NameOf(st)) /\ st' # NoState) => NameOf(st') = NameOf(st)
       /\ (ValidName(NameOf(conv)) /\ st' # NoState) => NameOf(st') = NameOf(conv)
       /\ (ValidName(NameOf(st)) /\ conv' # NoState /\ conv' # conv)
             => NameOf(conv') = NameOf(st)
       /\ (ValidName(NameOf(conv)) /\ conv' # NoState)
             => NameOf(conv') = NameOf(conv)]_vars

\* the name of the first turn is still there in the second turn, after the
\* extractor has run on an utterance that says nothing of a name
C10_Witness ==
    /\ pc = "agent"
    /\ turns = 2
    /\ LastMessage(st).content = "2pm tomorrow"
    /\ st.lead_info.name = "laksh"

(***************************************************************************)
(* The extractor alone: extract_information_node applied to one message    *)
(* on a fact set, and then once more to the same message on the result.    *)
(* prior is the state it is first applied to, st the state after.          *)
(***************************************************************************)
\* the days datetime.now() falls on
ExtractDays == {Today0, [y |-> 2025, m |-> 12, d |-> 31]}

\* the text of the last message
ExtractTexts == {"laksh, 3122037041",
                 "my name is Sarah Ahmed and phone is 0501234567",
                 "let's do november 7th at 2pm",
                 "9am tomorrow",
                 "Sarah Ahmed, 2222222222",
                 "tomorrow at 10:00",
                 "is 2025-12-05 ok",
                 "maybe in december",
                 "see you at 14pm"}

\* the facts known before
ExtractLeads == {EmptyState.lead_info,
                 [name |-> "yes", phone |-> "1234567", email |-> ""],
                 [name |-> "laksh", phone |-> "3122037041", email |-> "laksh@example.com"]}
ExtractTours == {EmptyState.tour_details,
                 [property_id |-> "rocky_002", date |-> "2025-12-01", time |-> "16:00"]}
ExtractSelected == {"", "rocky_001"}
\* the store while the extractor runs: empty, or with a booking made earlier
ExtractStores ==
    {<<>>,
     book_slot(<<>>, "rocky_001", Strftime(Today0), "10:00",
               "laksh", "3122037041", Today0).cal}

ExtractInputs ==
    {[EmptyState EXCEPT !.messages = <<HumanMessage(text)>>,
                        !.lead_info = lead_info,
                        !.tour_details = tour_details,
                        !.selected_property = [property_id |-> selected]] :
        text \in ExtractTexts, lead_info \in ExtractLeads,
        tour_details \in ExtractTours, selected \in ExtractSelected}

InitExtract ==
    /\ DUMMY_CALENDAR \in ExtractStores
    /\ now \in ExtractDays
    /\ ret = NoCall
    /\ ncalls = 0
    /\ elapsed = 0
    /\ reserved = {}
    /\ cpc = <<>> /\ cargs = <<>> /\ cref = <<>> /\ cslot = <<>> /\ cret = <<>>
    /\ orphans = <<>>
    /\ conv = NoState
    /\ prior \in ExtractInputs
    /\ st = prior
    /\ pc = "given"
    /\ turns = 0
    /\ rounds = 0
    /\ outcome = "none"

\* extract_information_node on the state, its dict merged into the state;
\* conv is the state object the node was given, as it is after the call
ExtractOnce ==
    /\ pc = "given"
    /\ st' = Merge(st, extract_information_node(st, now))
    /\ conv' = extract_information_node_input(st, now)
    /\ pc' = "once"
    /\ UNCHANGED <<storeVars, concVars, prior, turns, rounds, outcome>>

\* the same again on the state that resulted
ExtractAgain ==
    /\ pc = "once"
    /\ st' = Merge(st, extract_information_node(st, now))
    /\ conv' = extract_information_node_input(st, now)
    /\ pc' = "twice"
    /\ UNCHANGED <<storeVars, concVars, prior, turns, rounds, outcome>>

NextExtract ==
    \/ ExtractOnce
    \/ ExtractAgain

SpecExtract == InitExtract /\ [][NextExtract]_vars

(***************************************************************************)
(* Claims on the extractor alone (SpecExtract).                            *)
(***************************************************************************)
\* C11: idempotent extraction. For every prior fact set and every utterance,
\* applying extract_information_node to the utterance and then again to the
\* same utterance on the resulting facts, on the same day, gives the same
\* lead_info and tour_details as applying it once.
C11_IdempotentExtraction ==
    [][(pc = "once" /\ pc' = "twice")
        => /\ st'.lead_info = st.lead_info
           /\ st'.tour_details = st.tour_details]_vars

\* the extractor has run twice on an utterance that changed a name, a phone
\* that was too short, and added a property id
C11_Witness ==
    /\ pc = "twice"
    /\ prior.lead_info.name = "yes"
    /\ st.lead_info.name # prior.lead_info.name
    /\ st.lead_info.phone # prior.lead_info.phone
    /\ st.tour_details # prior.tour_details

\* the state before has no fact at all
EmptyFacts(state) ==
    /\ state.lead_info = EmptyState.lead_info
    /\ state.tour_details = EmptyState.tour_details
    /\ state.selected_property.property_id = ""

\* C12: name and phone on the documented utterances. From an empty fact set,
\* "laksh, 3122037041" gives name "laksh" and phone "3122037041", and
\* "my name is Sarah Ahmed and phone is 0501234567" gives name exactly
\* "Sarah Ahmed" and phone "0501234567".
C12_NameAndPhone ==
    (pc = "once" /\ EmptyFacts(prior)) =>
        /\ LastMessage(prior).content = "laksh, 3122037041"
              => st.lead_info.name = "laksh" /\ st.lead_info.phone = "3122037041"
        /\ LastMessage(prior).content = "my name is Sarah Ahmed and phone is 0501234567"
              => st.lead_info.name = "Sarah Ahmed" /\ st.lead_info.phone = "0501234567"

\* C13: date and time on the documented utterances. From an empty fact set,
\* "let's do november 7th at 2pm" gives the date <current year>-11-07 and
\* the time "14:00", and "9am tomorrow" gives tomorrow's ISO date and the
\* time "09:00".
C13_DateAndTime ==
    (pc = "once" /\ EmptyFacts(prior)) =>
        /\ LastMessage(prior).content = "let's do november 7th at 2pm"
              => /\ st.tour_details.date = ToString(now.y) \o "-11-07"
                 /\ st.tour_details.time = "14:00"
        /\ LastMessage(prior).content = "9am tomorrow"
              => /\ st.tour_details.date = Strftime(AddDays(now, 1))
                 /\ st.tour_details.time = "09:00"

\* "9am tomorrow" has been read on the last day of a year, from no facts
C13_Witness ==
    /\ pc = "once"
    /\ EmptyFacts(prior)
    /\ LastMessage(prior).content = "9am tomorrow"
    /\ now.m = 12 /\ now.d = 31
    /\ st.tour_details.date = "2026-01-01"

(***************************************************************************)
(* Claims on the turn driver (Spec).                                       *)
(***************************************************************************)
\* the state run_layla works on when it is called with this one
Given(state) == IF state = NoState THEN EmptyState ELSE state

\* the log starts with the messages of this list, in the same order
StartsWithLog(messages, log) ==
    /\ Len(messages) <= Len(log)
    /\ SubSeq(log, 1, Len(messages)) = messages

\* C14: collaborator failure is all-or-nothing. If llm_with_tools.invoke
\* raises during a turn, no exception leaves run_layla: it returns the state
\* it was called with, unchanged but for an apology message at the end of
\* the log, so the caller holds neither the extraction updates nor the user
\* message of the turn.
C14_CollaboratorFailure ==
    [][AgentRaises
        => /\ outcome' = "returned"
           /\ conv' # NoState
           /\ [conv' EXCEPT !.messages = <<>>] = [Given(prior) EXCEPT !.messages = <<>>]
           /\ conv'.messages = Given(prior).messages \o <<LastMessage(conv')>>
           /\ LastMessage(conv').type = "ai"]_vars

\* the tool calls of the last message name this tool
Requested(state, name) ==
    \E i \in 1..Len(LastMessage(state).tool_calls) :
        LastMessage(state).tool_calls[i].name = name

\* C15: per-turn merge. The state run_layla returns has lead_info,
\* tour_details, selected_property, search_results and workflow_stage of
\* the state it was called with, but for the fields an extraction or a
\* requested action of the turn has set: the graph starts with the five
\* fields of the caller, lead_info changes at extract only, tour_details at
\* extract or (its property_id) when the details of a property are requested,
\* selected_property when the details of a property are requested,
\* workflow_stage when actions are requested, search_results never, and the
\* state returned has the five fields of the graph's state.
C15_PerTurnMerge ==
    [][/\ (pc = "idle" /\ pc' = "extract")
            => [st' EXCEPT !.messages = <<>>] = [Given(prior') EXCEPT !.messages = <<>>]
       /\ (st # NoState /\ st' # NoState)
            => /\ st'.search_results = st.search_results
               /\ st'.lead_info # st.lead_info => pc = "extract"
               /\ st'.tour_details # st.tour_details
                     => \/ pc = "extract"
                        \/ /\ pc = "agent"
                           /\ Requested(st', "get_property_details_tool")
                           /\ [st'.tour_details EXCEPT !.property_id = ""]
                                 = [st.tour_details EXCEPT !.property_id = ""]
               /\ st'.selected_property # st.selected_property
                     => pc = "agent" /\ Requested(st', "get_property_details_tool")
               /\ st'.workflow_stage # st.workflow_stage
                     => pc = "agent" /\ LastMessage(st').tool_calls # <<>>
       /\ (pc = "agent" /\ pc' = "idle" /\ outcome' = "returned")
            => [conv' EXCEPT !.messages = <<>>] = [st EXCEPT !.messages = <<>>]]_vars

\* a second turn has returned: the search results, the stage and the email
\* the caller came with, the name of the first turn and the time of the second
C15_Witness ==
    /\ pc = "idle"
    /\ outcome = "returned"
    /\ turns = 2
    /\ conv.search_results = <<"rocky_002">>
    /\ conv.workflow_stage = "completed"
    /\ conv.lead_info.email = "sarah@example.com"
    /\ conv.lead_info.name = "laksh"
    /\ conv.tour_details.time = "14:00"

\* the messages a step has added to the log of the graph's state
Added == SubSeq(st'.messages, Len(st.messages) + 1, Len(st'.messages))

\* a turn returns to the caller
Returns == pc = "agent" /\ pc' = "idle" /\ outcome' = "returned"

\* C16: the message log is append-only across turns. The messages of the
\* state run_layla returns start with every message of the state it was
\* called with, in the same order, followed by the user message of the turn;
\* so after n turns the log still holds the user message of turn 1.
C16_AppendOnlyLog ==
    [][Returns
        => StartsWithLog(Given(prior).messages
                         \o <<st.messages[Len(Given(prior).messages) + 1]>>,
                         conv'.messages)]_vars

\* C17: turn ordering. A turn goes Start, Extract, Decide and then halts or
\* goes to Dispatch; Dispatch comes only directly after a Decide that asks
\* for actions, an Extract follows every Dispatch, and no Decide runs
\* without an Extract directly before it.
C17_TurnOrdering ==
    [][/\ pc = "idle" => pc' = "extract"
       /\ pc = "extract" => pc' = "agent"
       /\ pc = "agent" => pc' \in {"tools", "idle"}
       /\ pc = "tools" => pc' = "extract"
       /\ pc' = "agent" => pc = "extract"
       /\ pc' = "tools" => pc = "agent" /\ LastMessage(st').tool_calls # <<>>]_vars

\* in a second turn a Decide is due after Dispatch and the Extract behind it
C17_Witness ==
    /\ pc = "agent"
    /\ turns = 2
    /\ rounds = 1
    /\ LastMessage(st).type = "tool"

\* C18: turn termination. A turn halts exactly at the first Decide whose
\* output asks for no action: the state returned ends with that message of
\* the agent, and a Decide that does not halt has asked for actions. As the
\* model at last answers without asking for actions, every turn halts.
C18_TurnTermination ==
    /\ [][/\ Returns => /\ LastMessage(conv').type = "ai"
                        /\ LastMessage(conv').tool_calls = <<>>
          /\ (pc = "agent" /\ pc' # "idle") => LastMessage(st').tool_calls # <<>>]_vars
    /\ (pc # "idle") ~> (pc = "idle")

\* a turn has halted with the reply of the model after one round of tools
C18_Witness ==
    /\ pc = "idle"
    /\ outcome = "returned"
    /\ rounds = 1
    /\ LastMessage(conv).type = "ai"
    /\ LastMessage(conv).content \in Replies

\* the calls the node "tools" is run on
Batch == LastMessage(st).tool_calls

\* C19: per-call error isolation. For a batch of calls of one Decide, a call
\* of a name that is no tool is answered by a failure observation for that
\* call, every other call of the batch has its own observation, and the turn
\* goes on.
C19_ErrorIsolation ==
    [][(pc = "tools" /\ \E i \in 1..Len(Batch) : Batch[i].name \notin ToolNames)
        => /\ pc' = "extract"
           /\ \A i \in 1..Len(Batch) :
                 \E k \in 1..Len(Added) :
                    /\ Added[k].type = "tool"
                    /\ Added[k].tool_call_id = Batch[i].id
                    /\ Batch[i].name \notin ToolNames => StartsWith(Added[k].content, "Error")]_vars

\* C20: every requested action is answered. When the batch of one Decide
\* holds the smart booking together with other calls, or more than once, the
\* node "tools" appends exactly one ToolMessage for each call of the batch,
\* in the order of the calls, each with the id of its call.
C20_EveryCallAnswered ==
    [][(SmartBookingStep /\ Len(Batch) > 1)
        => /\ Len(Added) = Len(Batch)
           /\ \A i \in 1..Len(Batch) :
                 Added[i].type = "tool" /\ Added[i].tool_call_id = Batch[i].id]_vars

\* C21: Dispatch does not mutate conversation facts. A step of the node
\* "tools", for any batch, whether the smart booking books, reports what is
\* missing or fails, changes only the message log: lead_info, tour_details,
\* selected_property, search_results and workflow_stage are as before.
C21_DispatchKeepsFacts ==
    [][pc = "tools"
        => /\ st'.lead_info = st.lead_info
           /\ st'.tour_details = st.tour_details
           /\ st'.selected_property = st.selected_property
           /\ st'.search_results = st.search_results
           /\ st'.workflow_stage = st.workflow_stage
           /\ SubSeq(st'.messages, 1, Len(st.messages)) = st.messages]_vars

\* the node "tools" has booked a tour for laksh; the stage is still "booking"
C21_Witness ==
    /\ pc = "extract"
    /\ rounds = 1
    /\ StartsWith(LastMessage(st).content, "\nTour booking confirmed!")
    /\ st.lead_info.name = "laksh"
    /\ st.workflow_stage = "booking"

\* the log holds the observation of a get_property_details_tool call for
\* this property: a ToolMessage with the id of such a call
DetailsObserved(messages, property_id) ==
    \E k \in 1..Len(messages) : \E j \in 1..Len(messages) :
        /\ messages[k].type = "tool"
        /\ \E i \in 1..Len(messages[j].tool_calls) :
              /\ messages[j].tool_calls[i].name = "get_property_details_tool"
              /\ messages[j].tool_calls[i].args.property_id = property_id
              /\ messages[j].tool_calls[i].id = messages[k].tool_call_id

\* C22: resource selection is a post-dispatch update. Within a turn,
\* selected_property and the property id of tour_details are set to the
\* property of a get_property_details_tool call only by a step after which
\* the log holds the observation of that call, never before it exists.
C22_SelectionAfterDispatch ==
    [][(pc \in {"extract", "agent", "tools"} /\ pc' \in {"extract", "agent", "tools"})
        => /\ st'.selected_property # st.selected_property
                => DetailsObserved(st'.messages, st'.selected_property.property_id)
           /\ (st'.tour_details.property_id # st.tour_details.property_id
               /\ st'.tour_details.property_id # st.selected_property.property_id)
                => DetailsObserved(st'.messages, st'.tour_details.property_id)]_vars

\* C23: system prompt freshness. Whenever the model is invoked, in every turn
\* and after every round of tools, the first entry of the list it is given is
\* the system prompt rendered from the lead_info, tour_details and
\* selected_property of the state at that moment, whatever the log holds,
\* a message with the word "Layla" included.
C23_SystemPromptFreshness ==
    pc = "agent" => Head(llm_input(st)) = HumanMessage(get_system_prompt(st))

\* C26: smart-booking outcome. Every call of book_tour_smart_tool in a batch
\* is answered by exactly one ToolMessage with the id of the call; its
\* content is the message of what is missing, or the confirmation (exactly
\* when the step recorded a booking), or "Booking failed: " with the reason
\* of the store; it is never the text of the tool function itself.
C26_SmartBookingOutcome ==
    [][(pc = "tools" /\ pc' = "extract")
        => \A i \in 1..Len(Batch) :
              Batch[i].name = "book_tour_smart_tool"
              => /\ Cardinality({k \in 1..Len(Added) :
                                    Added[k].tool_call_id = Batch[i].id}) = 1
                 /\ \A k \in 1..Len(Added) :
                       Added[k].tool_call_id = Batch[i].id
                       => /\ Added[k].type = "tool"
                          /\ \/ MissingObserved(Added[k].content)
                             \/ BookSlotObserved(Added[k].content)
                          /\ StartsWith(Added[k].content, "\nTour booking confirmed!")
                                <=> RecordsBooking
                          /\ Added[k].content # "Checking booking information..."]_vars

(***************************************************************************)
(* Claims on the store: the calendar of a property.                        *)
(***************************************************************************)
\* the (date, time) pairs a list of slots offers, in the order of the list
OffersOf(slots) == [i \in 1..Len(slots) |-> <<slots[i].date, slots[i].time>>]

\* 10:00, 14:00 and 16:00 on each of 7 consecutive days from today on
WeekOffers(today) ==
    [i \in 1..21 |-> <<Strftime(AddDays(today, (i - 1) \div 3)),
                       <<"10:00", "14:00", "16:00">>[((i - 1) % 3) + 1]>>]

\* C25: lazy calendar generation. The first reference to a property by
\* get_available_slots, check_availability or book_slot creates its calendar
\* with exactly the offers 10:00, 14:00 and 16:00 of 7 consecutive days from
\* the current day on, all available and no booking (book_slot then books in
\* it at most the slot it was called for); a calendar that exists is never
\* generated again or extended, and nothing else creates one.
C25_LazyCalendar ==
    [][\A p \in PropertyIds :
        /\ (p \notin DOMAIN DUMMY_CALENDAR /\ p \in DOMAIN DUMMY_CALENDAR')
            => /\ ret'.op \in {"get_available_slots", "check_availability", "book_slot"}
               /\ ret'.property_id = p
               /\ OffersOf(DUMMY_CALENDAR'[p].available_slots) = WeekOffers(now)
               /\ \A i \in 1..21 :
                     \/ DUMMY_CALENDAR'[p].available_slots[i].available
                     \/ /\ ret'.op = "book_slot"
                        /\ WeekOffers(now)[i] = <<ret'.date, ret'.time>>
               /\ ret'.op # "book_slot" => DUMMY_CALENDAR'[p].booked_slots = <<>>
        /\ p \in DOMAIN DUMMY_CALENDAR
            => /\ p \in DOMAIN DUMMY_CALENDAR'
               /\ OffersOf(DUMMY_CALENDAR'[p].available_slots)
                     = OffersOf(DUMMY_CALENDAR[p].available_slots)
               /\ \A i \in 1..Len(DUMMY_CALENDAR[p].available_slots) :
                     DUMMY_CALENDAR'[p].available_slots[i].available
                        => DUMMY_CALENDAR[p].available_slots[i].available
               /\ StartsWithLog(DUMMY_CALENDAR[p].booked_slots,
                                DUMMY_CALENDAR'[p].booked_slots)
        /\ (p \notin DOMAIN DUMMY_CALENDAR
            /\ ret'.op \in {"get_available_slots", "check_availability", "book_slot"}
            /\ ret'.property_id = p /\ ncalls' # ncalls)
            => p \in DOMAIN DUMMY_CALENDAR']_vars

\* two calendars, one made before midnight and one after it, and the older
\* one was asked for its slots after midnight
C25_Witness ==
    /\ elapsed = 1
    /\ DOMAIN DUMMY_CALENDAR = PropertyIds
    /\ DUMMY_CALENDAR["rocky_001"].available_slots[1].date = Strftime(Today0)
    /\ DUMMY_CALENDAR["rocky-001"].available_slots[1].date = Strftime(NextDay(Today0))
    /\ ret.op = "get_available_slots"
    /\ ret.property_id = "rocky_001"
    /\ ncalls = 3

(***************************************************************************)
(* Claims on the steps of the extractor (SpecExtract).                     *)
(***************************************************************************)
\* the text the extractor is applied to
TextOf(state) == LastMessage(state).content

\* C27: combined name+phone rule. When the text matches "Name, 8-12 digit
\* number" with a name that is not yes, no, yep or nope, the name is the
\* matched one if the name known before is unset or one of these words and
\* is the known one otherwise; the phone is the matched one if the phone
\* known before is unset or has fewer than 8 digits, and the known one
\* otherwise.
C27_CombinedNamePhone ==
    pc = "once" =>
        \A m \in {Search(comma_patterns[1], TextOf(prior))} :
        \A name \in {IF m.ok THEN Strip(Group(m, TextOf(prior), 1)) ELSE ""} :
            (m.ok /\ Len(name) >= 2 /\ Lower(name) \notin {"yes", "no", "yep", "nope"})
            => /\ st.lead_info.name =
                    IF prior.lead_info.name \in {"", "yes", "no", "yep", "nope"}
                    THEN name ELSE prior.lead_info.name
               /\ st.lead_info.phone =
                    IF Len(prior.lead_info.phone) < 8
                    THEN Group(m, TextOf(prior), 2) ELSE prior.lead_info.phone

\* "laksh, 3122037041" was said when the name known was "yes" and the phone
\* known had 7 digits: both were replaced
C27_Witness ==
    /\ pc = "once"
    /\ TextOf(prior) = "laksh, 3122037041"
    /\ prior.lead_info.name = "yes"
    /\ prior.lead_info.phone = "1234567"
    /\ st.lead_info.name = "laksh"
    /\ st.lead_info.phone = "3122037041"

\* C28: introduction and phone phrases never overwrite. With a name known
\* the introduction phrases change nothing, and with a phone known the phone
\* phrases change nothing: name and phone are what the "name, phone" step
\* alone leaves, and a known phone of 8 or more digits stays as it is.
C28_PhrasesNeverOverwrite ==
    pc = "once" =>
        \A lead \in {extract_comma(prior.lead_info, TextOf(prior), 1)} :
            /\ prior.lead_info.name # "" => st.lead_info.name = lead.name
            /\ prior.lead_info.phone # "" => st.lead_info.phone = lead.phone
            /\ Len(prior.lead_info.phone) >= 8
                  => st.lead_info.phone = prior.lead_info.phone

\* an introduction with a phone phrase was said when name and phone were known
C28_Witness ==
    /\ pc = "once"
    /\ TextOf(prior) = "my name is Sarah Ahmed and phone is 0501234567"
    /\ prior.lead_info.name = "yes"
    /\ prior.lead_info.phone = "1234567"
    /\ st.lead_info = prior.lead_info

\* the lower-cased text holds the name of a month
HasMonthName(text) ==
    \E month \in {"january", "february", "march", "april", "may", "june", "july",
                  "august", "september", "october", "november", "december"} :
        Contains(Lower(text), month)

\* the lower-cased text holds one of the date forms
HasDateForm(text) ==
    \E k \in 1..Len(date_patterns) : Search(date_patterns[k], Lower(text)).ok

\* C29: date re-extraction trigger. The date is extracted if and only if no
\* date is known or the text holds a month name: with a date known and no
\* month name in the text the date is unchanged, even if the text says
\* "today", "tomorrow" or an ISO date; with a month name and no date form the
\* date is unchanged too; and when it is extracted from a date form the
\* date is the one said (none of the texts says the date known before).
C29_DateTrigger ==
    pc = "once" =>
        /\ (prior.tour_details.date # "" /\ ~HasMonthName(TextOf(prior)))
              => st.tour_details.date = prior.tour_details.date
        /\ (prior.tour_details.date # "" /\ ~HasDateForm(TextOf(prior)))
              => st.tour_details.date = prior.tour_details.date
        /\ ((prior.tour_details.date = "" \/ HasMonthName(TextOf(prior)))
            /\ HasDateForm(TextOf(prior)))
              => /\ st.tour_details.date # ""
                 /\ st.tour_details.date # prior.tour_details.date
        /\ (prior.tour_details.date = "" /\ ~HasDateForm(TextOf(prior)))
              => st.tour_details.date = ""

\* "9am tomorrow" was said with a date known: the date is as before, the
\* time is the one said
C29_Witness ==
    /\ pc = "once"
    /\ TextOf(prior) = "9am tomorrow"
    /\ prior.tour_details.date = "2025-12-01"
    /\ st.tour_details.date = "2025-12-01"
    /\ st.tour_details.time = "09:00"

\* a 24-hour "HH:MM": hour 00..23, minute 00..59
IsHHMM(time) ==
    /\ Len(time) = 5
    /\ Ch(time, 3) = ":"
    /\ IsDigit(SubSeq(time, 1, 2)) /\ IsDigit(SubSeq(time, 4, 5))
    /\ Int_(SubSeq(time, 1, 2)) \in 0..23
    /\ Int_(SubSeq(time, 4, 5)) \in 0..59

\* C30: time conversion. Every time the extractor stores is a 24-hour HH:MM
\* string with hour in 00..23 and minute in 00..59.
C30_TimeConversion ==
    (pc = "once" /\ st.tour_details.time # prior.tour_details.time)
        => IsHHMM(st.tour_details.time)

(***************************************************************************)
(* Claims on the chat boundary (SpecChat).                                 *)
(***************************************************************************)
\* the messages as objects of the message classes
AsMessages(messages) ==
    [i \in 1..Len(messages) |-> [messages[i] EXCEPT !.base = TRUE]]

\* the state with the log it would hold had it been kept in memory
InMemory(state) == [state EXCEPT !.messages = AsMessages(state.messages)]

\* C24: boundary round-trip. The state of one response, sent back unchanged
\* as the state of the next request, carries the same log and facts into the
\* turn as the state kept in memory would: whenever the model is invoked, the
\* list it is given holds, entry for entry, the messages it would be given
\* had the log been kept in memory.
C24_BoundaryRoundTrip ==
    pc = "agent" => AsMessages(llm_input(st)) = llm_input(InMemory(st))


\* C31: resource id copy. After extract_information_node, if selected_property
\* has a property id and tour_details.property_id was empty, then
\* tour_details.property_id is the selected property id; if
\* tour_details.property_id was not empty, the extractor leaves it as it was.
C31_ResourceIdCopy ==
    pc = "once" =>
        /\ (prior.selected_property.property_id # "" /\ prior.tour_details.property_id = "")
              => st.tour_details.property_id = prior.selected_property.property_id
        /\ prior.tour_details.property_id # ""
              => st.tour_details.property_id = prior.tour_details.property_id

\* the extractor has copied rocky_001 from the selection into an empty
\* tour_details.property_id
C31_Witness ==
    /\ pc = "once"
    /\ prior.selected_property.property_id = "rocky_001"
    /\ prior.tour_details.property_id = ""
    /\ st.tour_details.property_id = "rocky_001"


C33_DecideKeepsLog ==
    [][(pc = "agent" /\ pc' = "tools") =>
        /\ Len(st'.messages) = Len(st.messages) + 1
        /\ StartsWithLog(st.messages, st'.messages)]_vars


\* the (date, time) pairs of a list of slots, in the order of the list
SlotPairs(slots) == [i \in 1..Len(slots) |-> <<slots[i].date, slots[i].time>>]

\* C34: slot availability is monotonic. For every property that has a
\* calendar, no call of get_available_slots, check_availability, book_slot or
\* get_booked_slots and no passing of time changes the (date, time) pairs the
\* calendar offers, and a slot that is unavailable stays unavailable.
C34_AvailabilityMonotonic ==
    [][\A p \in DOMAIN DUMMY_CALENDAR :
        /\ p \in DOMAIN DUMMY_CALENDAR'
        /\ SlotPairs(DUMMY_CALENDAR'[p].available_slots)
              = SlotPairs(DUMMY_CALENDAR[p].available_slots)
        /\ \A i \in 1..Len(DUMMY_CALENDAR[p].available_slots) :
              ~DUMMY_CALENDAR[p].available_slots[i].available
                  => ~DUMMY_CALENDAR'[p].available_slots[i].available]_vars

\* a second book_slot for a booked slot was refused on the day after the
\* booking, and the slot is still unavailable
C34_Witness ==
    /\ ret.op = "book_slot"
    /\ ret.property_id = "rocky_001"
    /\ ret.result.success = FALSE
    /\ ret.result.error = "Slot is already booked"
    /\ now = NextDay(Today0)
    /\ \E i \in 1..Len(DUMMY_CALENDAR["rocky_001"].available_slots) :
          LET slot == DUMMY_CALENDAR["rocky_001"].available_slots[i] IN
          slot.date = ret.date /\ slot.time = ret.time /\ ~slot.available


\* the slots of a calendar that can still be booked
StillAvailable(calendar) ==
    {i \in 1..Len(calendar.available_slots) : calendar.available_slots[i].available}

\* C36: store consistency. Under sequential calls, in every state and for
\* every property with a calendar, the booked list has exactly one entry for
\* every unavailable slot and none for an available one, no two entries have
\* the same (date, time), every entry is for a slot of the calendar, and the
\* available slots and the bookings together are 21.
C36_StoreConsistency ==
    \A p \in DOMAIN DUMMY_CALENDAR :
        LET calendar == DUMMY_CALENDAR[p] IN
        /\ \A i \in 1..Len(calendar.available_slots) :
              CountAt(calendar.booked_slots, calendar.available_slots[i].date,
                      calendar.available_slots[i].time)
                  = IF calendar.available_slots[i].available THEN 0 ELSE 1
        /\ \A k \in 1..Len(calendar.booked_slots) :
              /\ CountAt(calendar.booked_slots, calendar.booked_slots[k].date,
                         calendar.booked_slots[k].time) = 1
              /\ Offered(DUMMY_CALENDAR, p, calendar.booked_slots[k].date,
                         calendar.booked_slots[k].time)
        /\ Cardinality(StillAvailable(calendar)) + Len(calendar.booked_slots) = 21

\* one property has two bookings and nineteen available slots
C36_Witness ==
    /\ "rocky_001" \in DOMAIN DUMMY_CALENDAR
    /\ Len(DUMMY_CALENDAR["rocky_001"].booked_slots) = 2
    /\ Cardinality(StillAvailable(DUMMY_CALENDAR["rocky_001"])) = 19


\* C35: lazy initialisation keeps bookings under concurrency. When several
\* callers run book_slot concurrently for a property that has no calendar
\* yet, in any interleaving of their statements, the calendar the store holds
\* for the property keeps every booking it has and every slot that is
\* unavailable in it stays unavailable: no caller's initialisation puts a
\* new calendar in the place of one that exists.
C35_LazyInitKeepsBookings ==
    [][\A p \in DOMAIN DUMMY_CALENDAR :
        /\ p \in DOMAIN DUMMY_CALENDAR'
        /\ StartsWithLog(DUMMY_CALENDAR[p].booked_slots, DUMMY_CALENDAR'[p].booked_slots)
        /\ \A i \in 1..Len(DUMMY_CALENDAR[p].available_slots) :
              ~DUMMY_CALENDAR[p].available_slots[i].available
                  => ~DUMMY_CALENDAR'[p].available_slots[i].available]_vars


\* the list of slots has one with this date and time
HasSlot(slots, date, time) ==
    \E i \in 1..Len(slots) : slots[i].date = date /\ slots[i].time = time

\* a step of the store that is a call of one of the two queries
QueryStep ==
    /\ ncalls' = ncalls + 1
    /\ ret'.op \in {"get_available_slots", "check_availability"}

\* C38: queries agree with reserve. In every state of the store, for every
\* property, date and time, check_availability returns true exactly when a
\* book_slot for them called next would succeed, and exactly when
\* get_available_slots for the property (with or without the date) lists the
\* date and time; a call of either query leaves the slots and the booked
\* list of every calendar as they were, a calendar it creates has every slot
\* available and no booking.
C38_QueriesAgreeWithReserve ==
    /\ [](\A p \in PropertyIds, s \in StoreSlots, c \in Customers :
            \A cal \in {initialize_calendar_for_property(DUMMY_CALENDAR, p, now)} :
            /\ check_availability(cal, p, s[1], s[2])
                  = book_slot(DUMMY_CALENDAR, p, s[1], s[2], c.name, c.phone, now).result.success
            /\ check_availability(cal, p, s[1], s[2])
                  = HasSlot(get_available_slots(cal, p, ""), s[1], s[2])
            /\ check_availability(cal, p, s[1], s[2])
                  = HasSlot(get_available_slots(cal, p, s[1]), s[1], s[2]))
    /\ [][QueryStep =>
            \A p \in DOMAIN DUMMY_CALENDAR' :
                IF p \in DOMAIN DUMMY_CALENDAR
                THEN DUMMY_CALENDAR'[p] = DUMMY_CALENDAR[p]
                ELSE /\ DUMMY_CALENDAR'[p].booked_slots = <<>>
                     /\ \A i \in 1..Len(DUMMY_CALENDAR'[p].available_slots) :
                           DUMMY_CALENDAR'[p].available_slots[i].available]_vars

\* check_availability has returned false for a slot of the calendar that a
\* customer has booked
C38_Witness ==
    /\ ret.op = "check_availability"
    /\ ret.result = FALSE
    /\ Offered(DUMMY_CALENDAR, ret.property_id, ret.date, ret.time)
    /\ CountAt(DUMMY_CALENDAR[ret.property_id].booked_slots, ret.date, ret.time) = 1


\* C37: confirmation ids distinguish slots. The confirmation_id a successful
\* book_slot returns differs from the confirmation_id of every booking the
\* store holds for another (property_id, date, time), also when the property
\* ids differ only in the characters '-', ':' and '_'.
C37_ConfirmationIdsDistinct ==
    [][(BookStep /\ ret'.result.success) =>
        \A p \in DOMAIN DUMMY_CALENDAR :
            \A k \in 1..Len(DUMMY_CALENDAR[p].booked_slots) :
                LET b == DUMMY_CALENDAR[p].booked_slots[k] IN
                <<p, b.date, b.time>> # <<ret'.property_id, ret'.date, ret'.time>>
                    => confirmation_id(p, b.date, b.time) # ret'.result.confirmation_id]_vars


\* selected_property and tour_details of a state name the same property
TargetsAgree(state) ==
    (state # NoState /\ state.selected_property.property_id # "")
        => state.tour_details.property_id = state.selected_property.property_id

\* C39: selection and tour target agree. In a conversation started without a
\* state, after any turns and at every node, whenever selected_property has a
\* property id, tour_details.property_id is that id, in the state of the
\* graph and in the state the caller holds; the smart booking, which takes
\* tour_details.property_id first, books the property selected last.
C39_SelectionAndTourAgree ==
    /\ TargetsAgree(st)
    /\ TargetsAgree(conv)

\* in the second turn the selection has gone from rocky_001 to rocky_002 and
\* the tour's property with it
C39_Witness ==
    /\ pc = "tools"
    /\ prior # NoState
    /\ prior.selected_property.property_id = "rocky_001"
    /\ prior.tour_details.property_id = "rocky_001"
    /\ st.selected_property.property_id = "rocky_002"
    /\ st.tour_details.property_id = "rocky_002"


\* the stage the tool calls of a response ask for: booking for a tour-slot
\* query or a smart booking, else viewing for a detail fetch, else searching
\* for a search, else the stage as it was
RequestedStage(workflow_stage, tool_calls) ==
    LET Asks(name) == \E i \in 1..Len(tool_calls) : tool_calls[i].name = name IN
    IF Asks("book_tour_smart_tool") \/ Asks("get_tour_slots_tool") THEN "booking"
    ELSE IF Asks("get_property_details_tool") THEN "viewing"
    ELSE IF Asks("search_properties_tool") THEN "searching"
    ELSE workflow_stage

\* C40: workflow stage values. In a conversation started without a state,
\* workflow_stage is always searching, viewing or booking; it is set only by
\* layla_agent_node, from the tool calls of the response (search: searching,
\* detail fetch: viewing, tour-slot query or smart booking: booking, the
\* later of these winning in one batch); the extractor, the tools (a
\* successful reservation included), the start and the return of a turn leave
\* it as it is, so it never becomes completed.
C40_WorkflowStageValues ==
    /\ [](/\ st # NoState => st.workflow_stage \in {"searching", "viewing", "booking"}
          /\ conv # NoState => conv.workflow_stage \in {"searching", "viewing", "booking"})
    /\ [][/\ (pc = "agent" /\ pc' = "tools") =>
                st'.workflow_stage
                    = RequestedStage(st.workflow_stage, LastMessage(st').tool_calls)
          /\ (pc \in {"extract", "tools"} /\ st' # NoState) =>
                st'.workflow_stage = st.workflow_stage
          /\ (pc = "agent" /\ pc' = "idle" /\ outcome' = "returned") =>
                conv'.workflow_stage = st.workflow_stage
          /\ (pc = "idle" /\ pc' = "extract") =>
                st'.workflow_stage = Given(conv).workflow_stage
          /\ (conv # NoState /\ conv' # NoState /\ ~(pc = "agent" /\ pc' = "idle")) =>
                conv'.workflow_stage = conv.workflow_stage]_vars

\* a turn in which a tour was booked has returned, the stage is booking
C40_Witness ==
    /\ pc = "idle" /\ outcome = "returned"
    /\ conv.workflow_stage = "booking"
    /\ \E p \in DOMAIN DUMMY_CALENDAR : DUMMY_CALENDAR[p].booked_slots # <<>>

====
